---- MODULE Spec2Model ----
(***************************************************************************)
(* Lineage extraction (scripts/build_metadata.py) and the lineage query    *)
(* engine (scripts/debug_engine.py) of debug_ai, as a state machine.       *)
(* Text is modelled as text: a script, a statement, an identifier and a    *)
(* report are strings, and the regular expressions of the source are       *)
(* matchers over their characters.                                         *)
(***************************************************************************)
EXTENDS Integers, Sequences, FiniteSets, TLC

(***************************************************************************)
(* Characters and the character classes of Python's re module.             *)
(***************************************************************************)
LowerLetters == "abcdefghijklmnopqrstuvwxyz"
UpperLetters == "ABCDEFGHIJKLMNOPQRSTUVWXYZ"
Digits == "0123456789"

CharAt(s, i) == SubSeq(s, i, i)

CharsOf(s) == {CharAt(s, i) : i \in 1..Len(s)}

LowerSet == CharsOf(LowerLetters)
UpperSet == CharsOf(UpperLetters)
DigitSet == CharsOf(Digits)

\* [a-zA-Z_]
IdentStart == LowerSet \cup UpperSet \cup {"_"}
\* [a-zA-Z0-9_]
IdentRest == IdentStart \cup DigitSet
\* \w on the characters the model's texts use (ASCII: letters, digits, underscore)
WordChars == IdentRest
\* \s
SpaceChars == {" ", "\n", "\t", "\r"}

\* str.lower() on one character
LowerChar[c \in STRING] ==
    IF c \in UpperSet
    THEN CharAt(LowerLetters, CHOOSE k \in 1..Len(UpperLetters) : CharAt(UpperLetters, k) = c)
    ELSE c

\* The concatenation of the texts part[lo], ..., part[hi].
Cat[part \in Seq(STRING), lo \in Int, hi \in Int] ==
    IF lo > hi THEN ""
    ELSE IF lo = hi THEN part[lo]
    ELSE Cat[part, lo, (lo + hi) \div 2] \o Cat[part, (lo + hi) \div 2 + 1, hi]

\* str.lower()
Lower[s \in STRING] == Cat[[i \in 1..Len(s) |-> LowerChar[CharAt(s, i)]], 1, Len(s)]

\* The position after the longest run of characters of class cls that starts
\* at position i of s (a greedy cls* of the regular expressions).
SkipClass[s \in STRING, i \in Int, cls \in SUBSET STRING] ==
    IF i <= Len(s) /\ CharAt(s, i) \in cls THEN SkipClass[s, i + 1, cls] ELSE i

\* The literal kw (given in lower case) at position i of s, letter case
\* ignored (re.IGNORECASE); the position after it, or 0.
Lit[s \in STRING, i \in Int, kw \in STRING] ==
    IF i >= 1 /\ i + Len(kw) - 1 <= Len(s) /\ Lower[SubSeq(s, i, i + Len(kw) - 1)] = kw
    THEN i + Len(kw)
    ELSE 0

\* kw followed by \s+ at position i; the position after the white space, or 0.
LitSp[s \in STRING, i \in Int, kw \in STRING] ==
    LET p == Lit[s, i, kw]
    IN  IF p = 0 THEN 0
        ELSE LET q == SkipClass[s, p, SpaceChars] IN IF q > p THEN q ELSE 0

(***************************************************************************)
(* debug_engine.py: identifier validation.                                 *)
(***************************************************************************)
\* [a-zA-Z_][a-zA-Z0-9_]* at position i; the position after it, or 0.
IdentName[s \in STRING, i \in Int] ==
    IF i <= Len(s) /\ CharAt(s, i) \in IdentStart
    THEN SkipClass[s, i + 1, IdentRest]
    ELSE 0

\* Python's $ (no re.MULTILINE): the end of the string, or just before a line
\* break that is the string's last character.
AtDollar[s \in STRING, p \in Int] == p = Len(s) + 1 \/ (p = Len(s) /\ CharAt(s, p) = "\n")

\* SAFE_IDENTIFIER.match(name): ^name(\.name)?$, the optional group tried
\* first and given up when the rest does not match.
SAFE_IDENTIFIER[s \in STRING] ==
    LET p1 == IdentName[s, 1]
        p2 == IF p1 # 0 /\ p1 <= Len(s) /\ CharAt(s, p1) = "."
              THEN IdentName[s, p1 + 1] ELSE 0
    IN  /\ p1 # 0
        /\ \/ (p2 # 0 /\ AtDollar[s, p2])
           \/ AtDollar[s, p1]

\* validate_identifier: TRUE when the name is returned, FALSE when ValueError
\* is raised.
validate_identifier(name) == name # "" /\ SAFE_IDENTIFIER[name]

(***************************************************************************)
(* build_metadata.py: GenericSQLParser.                                    *)
(***************************************************************************)
\* The least number of a non-empty finite set of numbers.
Least[S \in SUBSET Int] == CHOOSE k \in S : \A h \in S : k <= h

\* The text kw stands at position i of s.
StartsAt[s \in STRING, i \in Int, kw \in STRING] ==
    i >= 1 /\ i + Len(kw) - 1 <= Len(s) /\ SubSeq(s, i, i + Len(kw) - 1) = kw

\* The first position >= i where the text kw stands in s, or 0.
Find[s \in STRING, i \in Int, kw \in STRING] ==
    LET hits == {k \in i..Len(s) : StartsAt[s, k, kw]}
    IN  IF hits = {} THEN 0 ELSE Least[hits]

\* s without the characters at the positions in gone.
Without[s \in STRING, gone \in SUBSET Int] ==
    Cat[[i \in 1..Len(s) |-> IF i \in gone THEN "" ELSE CharAt(s, i)], 1, Len(s)]

\* clean_sql, first half: of every line (split on "\n") only the part before
\* its first "--" is kept. A character is dropped when a "--" starts at or
\* before it on its line.
LineCommentChars[s \in STRING] ==
    LET dashes == {j \in 1..Len(s) : StartsAt[s, j, "--"]}
        breaks == {j \in 1..Len(s) : CharAt(s, j) = "\n"}
    IN  {i \in 1..Len(s) :
            /\ i \notin breaks
            /\ \E j \in dashes : j <= i /\ \A k \in breaks : ~(j < k /\ k < i)}

\* clean_sql, second half: the characters that
\* re.sub(r'/\*.*?\*/', '', sql, flags=re.DOTALL) removes from position i on,
\* the matches left to right, each from a "/*" to the first "*/" after it.
BlockCommentChars[s \in STRING, i \in Int] ==
    LET open == Find[s, i, "/*"]
        close == IF open = 0 THEN 0 ELSE Find[s, open + 2, "*/"]
    IN  IF close = 0 THEN {}
        ELSE (open..(close + 1)) \cup BlockCommentChars[s, close + 2]

\* The text without its block comments.
StripBlockComments[lines \in STRING] == Without[lines, BlockCommentChars[lines, 1]]

clean_sql[sql \in STRING] == StripBlockComments[Without[sql, LineCommentChars[sql]]]

\* \w+(?:\.\w+)? at position i: the position after it, or 0.
TableRef[s \in STRING, i \in Int] ==
    LET p1 == SkipClass[s, i, WordChars]
        p2 == IF p1 <= Len(s) /\ CharAt(s, p1) = "." THEN SkipClass[s, p1 + 1, WordChars] ELSE 0
    IN  IF i < 1 \/ p1 = i THEN 0
        ELSE IF p2 > p1 + 1 THEN p2
        ELSE p1

\* (?:IF\s+NOT\s+EXISTS\s+)?(\w+(?:\.\w+)?) at position p: <<from, to>> of
\* group 1, or <<0, 0>>.
CreateTargetAt[s \in STRING, p \in Int] ==
    LET d == LitSp[s, LitSp[s, LitSp[s, p, "if"], "not"], "exists"]
    IN  IF d # 0 /\ TableRef[s, d] # 0 THEN <<d, TableRef[s, d]>>
        ELSE IF p # 0 /\ TableRef[s, p] # 0 THEN <<p, TableRef[s, p]>>
        ELSE <<0, 0>>

\* (?:TABLE|VIEW)\s+ and the target at position p.
CreateKindAt[s \in STRING, p \in Int] ==
    LET t == LitSp[s, p, "table"]
        v == LitSp[s, p, "view"]
    IN  IF t # 0 THEN CreateTargetAt[s, t]
        ELSE IF v # 0 THEN CreateTargetAt[s, v]
        ELSE <<0, 0>>

\* CREATE_PATTERN at position i: <<from, to>> of group 1, or <<0, 0>>.
CreateAt[s \in STRING, i \in Int] ==
    LET a == LitSp[s, i, "create"]
        c == LitSp[s, LitSp[s, a, "or"], "replace"]
        withOr == IF c # 0 THEN CreateKindAt[s, c] ELSE <<0, 0>>
    IN  IF a = 0 THEN <<0, 0>>
        ELSE IF withOr[1] # 0 THEN withOr
        ELSE CreateKindAt[s, a]

\* The text of s from position m[1] up to position m[2] - 1.
Group[s \in STRING, m \in Seq(Int)] == SubSeq(s, m[1], m[2] - 1)

\* CREATE_PATTERN.search(s).group(1), or "" when there is no match.
CREATE_PATTERN[s \in STRING] ==
    LET hits == {i \in 1..Len(s) : CreateAt[s, i][1] # 0}
    IN  IF hits = {} THEN "" ELSE Group[s, CreateAt[s, Least[hits]]]

\* \b before a word character at position i.
WordStart[s \in STRING, i \in Int] == i = 1 \/ CharAt(s, i - 1) \notin WordChars

\* SOURCE_PATTERN at position i: <<from, to>> of group 1, or <<0, 0>>.
SourceAt[s \in STRING, i \in Int] ==
    LET f == LitSp[s, i, "from"]
        j == LitSp[s, i, "join"]
        p == IF f # 0 THEN f ELSE j
    IN  IF WordStart[s, i] /\ p # 0 /\ TableRef[s, p] # 0
        THEN <<p, TableRef[s, p]>>
        ELSE <<0, 0>>

\* SOURCE_PATTERN.finditer(s) from position i: group 1 of every match, the
\* matches left to right and not overlapping.
SOURCE_PATTERN[s \in STRING, i \in Int] ==
    LET hits == {k \in i..Len(s) : SourceAt[s, k][1] # 0}
        m == SourceAt[s, Least[hits]]
    IN  IF hits = {} THEN <<>>
        ELSE <<Group[s, m]>> \o SOURCE_PATTERN[s, m[2]]

\* \s+(?:AS\s+)?(\w+) at position p: <<from, to>> of the column group, or
\* <<0, 0>>.
AliasAt[s \in STRING, p \in Int] ==
    LET q == SkipClass[s, p, SpaceChars]
        a == LitSp[s, q, "as"]
        w == SkipClass[s, a, WordChars]
        v == SkipClass[s, q, WordChars]
    IN  IF p < 1 \/ q = p THEN <<0, 0>>
        ELSE IF a # 0 /\ w > a THEN <<a, w>>
        ELSE IF v > q THEN <<q, v>>
        ELSE <<0, 0>>

\* END\s+(?:AS\s+)?(\w+) at position e.
EndAt[s \in STRING, e \in Int] == AliasAt[s, Lit[s, e, "end"]]

\* CASE_PATTERN at position i: <<e, from, to>>, e the position of the END
\* that closes group 1 and <<from, to>> the column group, or <<0, 0, 0>>.
\* CASE\s+ is greedy and .+? lazy: the first END after at least one
\* character beyond the white space; failing that, with the white space
\* given back by one, the END that starts right after the white space.
CaseAt[s \in STRING, i \in Int] ==
    LET a == Lit[s, i, "case"]
        b == SkipClass[s, a, SpaceChars]
        late == {e \in (b + 1)..Len(s) : EndAt[s, e][1] # 0}
    IN  IF a = 0 \/ b = a THEN <<0, 0, 0>>
        ELSE IF late # {} THEN <<Least[late]>> \o EndAt[s, Least[late]]
        ELSE IF b >= a + 2 /\ EndAt[s, b][1] # 0 THEN <<b>> \o EndAt[s, b]
        ELSE <<0, 0, 0>>

\* CASE_PATTERN.finditer(s) from position i: <<group 1, group 2>> of every
\* match.
CASE_PATTERN[s \in STRING, i \in Int] ==
    LET hits == {k \in i..Len(s) : CaseAt[s, k][1] # 0}
        first == Least[hits]
        m == CaseAt[s, first]
    IN  IF hits = {} THEN <<>>
        ELSE <<  <<SubSeq(s, first, m[1] + 2), SubSeq(s, m[2], m[3] - 1)>>  >>
             \o CASE_PATTERN[s, m[3]]

AggFunctions == {"sum", "avg", "count", "min", "max", "coalesce", "nullif"}

\* AGG_PATTERN at position i: <<c, from, to>>, c the position of the closing
\* parenthesis of group 1, or <<0, 0, 0>>.
AggAt[s \in STRING, i \in Int] ==
    LET fns == {f \in AggFunctions : Lit[s, i, f] # 0}
        a == Lit[s, i, CHOOSE f \in fns : TRUE]
        b == SkipClass[s, a, SpaceChars]
        c == Find[s, b + 1, ")"]
    IN  IF fns = {} THEN <<0, 0, 0>>
        ELSE IF b > Len(s) \/ CharAt(s, b) # "(" \/ c <= b + 1 THEN <<0, 0, 0>>
        ELSE IF AliasAt[s, c + 1][1] = 0 THEN <<0, 0, 0>>
        ELSE <<c>> \o AliasAt[s, c + 1]

\* AGG_PATTERN.finditer(s) from position i: <<group 1, group 2>> of every
\* match.
AGG_PATTERN[s \in STRING, i \in Int] ==
    LET hits == {k \in i..Len(s) : AggAt[s, k][1] # 0}
        first == Least[hits]
        m == AggAt[s, first]
    IN  IF hits = {} THEN <<>>
        ELSE <<  <<SubSeq(s, first, m[1]), SubSeq(s, m[2], m[3] - 1)>>  >>
             \o AGG_PATTERN[s, m[3]]

\* str.strip()
Strip[s \in STRING] ==
    LET solid == {i \in 1..Len(s) : CharAt(s, i) \notin SpaceChars}
        lo == CHOOSE i \in solid : \A j \in solid : i <= j
        hi == CHOOSE i \in solid : \A j \in solid : i >= j
    IN  IF solid = {} THEN "" ELSE SubSeq(s, lo, hi)

\* sep.join(names)
Join[names \in Seq(STRING), sep \in STRING] ==
    Cat[[i \in 1..Len(names) |-> IF i = 1 THEN names[i] ELSE sep \o names[i]], 1, Len(names)]

\* sources.add(source) for every match whose lower-cased text differs from
\* the lower-cased target: the distinct sources in the order they were first
\* added.
AddAll[matches \in Seq(STRING), target \in STRING, added \in Seq(STRING)] ==
    IF matches = <<>> THEN added
    ELSE LET source == Head(matches)
             fresh == /\ Lower[source] # Lower[target]
                      /\ \A i \in 1..Len(added) : added[i] # source
         IN  AddAll[Tail(matches), target, IF fresh THEN Append(added, source) ELSE added]

\* Iterating a Python set of str: the order follows the strings' hashes,
\* which are salted anew in every interpreter process (PYTHONHASHSEED), so it
\* is fixed within one process and arbitrary across processes. Seed 0 keeps
\* the order of insertion; every odd seed reverses, and every second seed
\* rotates by one more place.
IterOrder[added \in Seq(STRING), seed \in Int] ==
    LET n == Len(added)
        rot == [i \in 1..n |-> added[((i - 1 + (seed \div 2)) % n) + 1]]
    IN  IF seed % 2 = 1 THEN [i \in 1..n |-> rot[n + 1 - i]] ELSE rot

\* A fact that named the target as its own source.
SelfLineage(target, source, sql) ==
    [target_table |-> target, source_table |-> target, sql_text |-> sql]

\* A fact with the edge turned round would name the source as the target.
Reversed(target, source, sql) ==
    [target_table |-> source, source_table |-> target, sql_text |-> sql]

TableLineage(target, source, sql) ==
    [target_table |-> target, source_table |-> source, sql_text |-> sql]

\* A column fact that never named its sources.
SourcesOmitted(target, column, sources, marker, logic, filename) ==
    [target_table |-> target, target_column |-> column, source_table |-> "UNKNOWN",
     source_column |-> marker, transformation_logic |-> logic, sql_file_name |-> filename]

\* A computed fact that did not record its column would not be found by the
\* loop over the aggregates.
ComputedUnnamed(target, column, sources, marker, logic, filename) ==
    [target_table |-> target,
     target_column |-> IF marker = "COMPUTED" THEN "" ELSE column,
     source_table |-> sources, source_column |-> marker,
     transformation_logic |-> logic, sql_file_name |-> filename]

ColumnLineage(target, column, sources, marker, logic, filename) ==
    [target_table |-> target, target_column |-> column, source_table |-> sources,
     source_column |-> marker, transformation_logic |-> logic, sql_file_name |-> filename]

\* The values a ColumnLineage can be.
ColumnLineages ==
    [target_table : STRING, target_column : STRING, source_table : STRING,
     source_column : STRING, transformation_logic : STRING, sql_file_name : STRING]

\* The loop over AGG_PATTERN's matches: a match whose column is already among
\* the column lineages (a CASE match, or an earlier aggregate) is skipped.
AddAggregations[matches \in Seq(Seq(STRING)), target \in STRING, shown \in STRING, filename \in STRING, column_lineages \in Seq(ColumnLineages)] ==
    IF matches = <<>> THEN column_lineages
    ELSE LET logic == Strip[Head(matches)[1]]
             column == Strip[Head(matches)[2]]
             taken == \E i \in 1..Len(column_lineages) :
                          column_lineages[i].target_column = column
         IN  AddAggregations[Tail(matches), target, shown, filename,
                 IF taken THEN column_lineages
                 ELSE Append(column_lineages,
                             ColumnLineage(target, column, shown, "AGGREGATED", logic, filename))]

\* The loop over CASE_PATTERN's matches.
AddComputed[cases \in Seq(Seq(STRING)), target \in STRING, shown \in STRING, filename \in STRING] ==
    [i \in 1..Len(cases) |->
        ColumnLineage(target, Strip[cases[i][2]], shown, "COMPUTED", Strip[cases[i][1]], filename)]

\* The values a TableLineage can be, and what a parse returns.
TableLineages == [target_table : STRING, source_table : STRING, sql_text : STRING]
Facts == [table : Seq(TableLineages), column : Seq(ColumnLineages)]

\* parse_statement once the target and the sources are known.
Lineages[clean \in STRING, target_table \in STRING, sources \in Seq(STRING), filename \in STRING] ==
    LET shown == IF sources # <<>> THEN Join[sources, ", "] ELSE "UNKNOWN"
    IN  [table |-> [i \in 1..Len(sources) |-> TableLineage(target_table, sources[i], clean)],
         column |-> AddAggregations[AGG_PATTERN[clean, 1], target_table, shown, filename,
                        AddComputed[CASE_PATTERN[clean, 1], target_table, shown, filename]]]

\* parse_statement on the cleaned text, target_table being what
\* CREATE_PATTERN found in it.
ParseClean[clean \in STRING, target_table \in STRING, filename \in STRING, seed \in Int] ==
    IF target_table = "" THEN [table |-> <<>>, column |-> <<>>]
    ELSE Lineages[clean, target_table,
                  IterOrder[AddAll[SOURCE_PATTERN[clean, 1], target_table, <<>>], seed],
                  filename]

\* GenericSQLParser.parse_statement in a process whose hash seed is seed.
parse_statement[sql \in STRING, filename \in STRING, seed \in Int] ==
    ParseClean[clean_sql[sql], CREATE_PATTERN[clean_sql[sql]], filename, seed]

\* all_table.extend(table), all_column.extend(column)
Extend[all \in Facts, more \in Facts] ==
    [table |-> all.table \o more.table, column |-> all.column \o more.column]

\* content.split(';'): the k-th fragment, cuts being the positions of the
\* terminators in increasing order.
Fragment[content \in STRING, cuts \in Seq(Int), k \in Int] ==
    LET from == IF k = 1 THEN 1 ELSE cuts[k - 1] + 1
        to == IF k = Len(cuts) + 1 THEN Len(content) ELSE cuts[k] - 1
    IN  IF from > to THEN "" ELSE SubSeq(content, from, to)

\* The numbers of a finite set in increasing order.
SortedSeq[S \in SUBSET Int] ==
    IF S = {} THEN <<>> ELSE <<Least[S]>> \o SortedSeq[S \ {Least[S]}]

\* stmt.strip(), and parse_statement when something is left.
ParseFragment[statement \in STRING, filename \in STRING, seed \in Int] ==
    IF statement # "" THEN parse_statement[statement, filename, seed]
    ELSE [table |-> <<>>, column |-> <<>>]

\* The loop of parse_file over the fragments from the k-th on.
ParseFragments[content \in STRING, cuts \in Seq(Int), k \in Int, filename \in STRING, seed \in Int] ==
    IF k > Len(cuts) + 1 THEN [table |-> <<>>, column |-> <<>>]
    ELSE Extend[ParseFragment[Strip[Fragment[content, cuts, k]], filename, seed],
                ParseFragments[content, cuts, k + 1, filename, seed]]

\* The files a directory can hold.
Files == [name : STRING, content : STRING]

\* GenericSQLParser.parse_file
parse_file[file \in Files, seed \in Int] ==
    ParseFragments[file.content,
                   SortedSeq[{i \in 1..Len(file.content) : CharAt(file.content, i) = ";"}],
                   1, file.name, seed]

(***************************************************************************)
(* The script directories the model builds from, and the configurations.   *)
(***************************************************************************)
ScriptA1 ==
    "CREATE TABLE s.f AS SELECT CASE WHEN x > 1 THEN 'H' ELSE 'L' END AS risk FROM r.a j JOIN r.b e ON j.k = e.k;\nCREATE VIEW r.a AS SELECT SUM(v) AS tot FROM r.c JOIN s.f;\n"
ScriptA2 ==
    "CREATE TABLE s.f AS SELECT CASE WHEN x > 9 THEN 'H'\nELSE 'L' END AS risk FROM r.a j JOIN r.b e ON j.k = e.k;\n"
ScriptB2 ==
    "CREATE OR REPLACE VIEW r.b AS SELECT SUBSTRING(n FROM 2) AS k FROM s.f;\n"

\* The directories sql_dir can be: each a set of files.
Dirs ==
    <<  {[name |-> "a.sql", content |-> ScriptA1]},
        {[name |-> "a.sql", content |-> ScriptA2], [name |-> "b.sql", content |-> ScriptB2]},
        {[name |-> "notes.txt", content |-> "CREATE TABLE n AS SELECT 1 FROM m;"]}  >>

\* The hash seeds an interpreter process may draw: 0..MaxSeed.
MaxSeed == 1

\* The metadata namespaces a deployment may be configured with.
Namespaces == {"meta", "lin"}

\* The characters of file names, in code point order.
Ascii == "-.0123456789ABCDEFGHIJKLMNOPQRSTUVWXYZ_abcdefghijklmnopqrstuvwxyz"

CharRank[c \in STRING] == CHOOSE i \in 1..Len(Ascii) : CharAt(Ascii, i) = c

\* a < b for str (and so for the Paths that sorted() compares).
StrLess[a \in STRING, b \in STRING] ==
    \E i \in 1..(Len(a) + 1) :
        /\ \A j \in 1..(i - 1) : j <= Len(b) /\ CharAt(a, j) = CharAt(b, j)
        /\ \/ (i = Len(a) + 1 /\ Len(b) > Len(a))
           \/ (i <= Len(a) /\ i <= Len(b) /\ CharRank[CharAt(a, i)] < CharRank[CharAt(b, i)])

\* The file of a non-empty set whose name comes first.
FirstFile[files \in SUBSET Files] ==
    CHOOSE f \in files : \A g \in files : g = f \/ StrLess[f.name, g.name]

\* sorted(sql_files)
SortedFiles[files \in SUBSET Files] ==
    IF files = {} THEN <<>>
    ELSE <<FirstFile[files]>> \o SortedFiles[files \ {FirstFile[files]}]

\* self.sql_dir.glob('*.sql')
GlobSql[dir \in SUBSET Files] ==
    {f \in dir : Len(f.name) >= 4 /\ SubSeq(f.name, Len(f.name) - 3, Len(f.name)) = ".sql"}

\* The parse loop of MetadataBuilder.build over the sorted files.
ParseFiles[files \in Seq(Files), seed \in Int] ==
    IF files = <<>> THEN [table |-> <<>>, column |-> <<>>]
    ELSE Extend[parse_file[Head(files), seed], ParseFiles[Tail(files), seed]]

\* What a build pass extracts from each directory in a process with each
\* hash seed: the parse is computed once per directory and seed.
Parses ==
    {<<d, seed, ParseFiles[SortedFiles[GlobSql[Dirs[d]]], seed]>> :
        d \in 1..Len(Dirs), seed \in 0..MaxSeed}

Extracted(d, seed) == (CHOOSE p \in Parses : p[1] = d /\ p[2] = seed)[3]

(***************************************************************************)
(* State.                                                                  *)
(***************************************************************************)
VARIABLES
    sqlDir,       \* the directory the builder reads: an index into Dirs
    metaSchema,   \* MetadataBuilder.meta_schema
    lineageSchema,\* the namespace of DebugEngine.table_lineage_table and
                  \* .column_lineage_table
    store,        \* the database file: its schemas and its tables' rows
    bpc,          \* where the running build pass stands
    pending,      \* all_table and all_column of the running build pass
    inserted,     \* how many INSERTs the running build pass has executed
    txn,          \* the database as the open transaction sees it
    bres,         \* how the last build pass ended, and what build() returned
    built,        \* history: the directory and the facts of the last parse
    preStore,     \* history: the database at the last BEGIN
    rival,        \* where a second build pass of the same process stands
    workers,      \* the threads that call trace_column_lineage: where each
                  \* stands in the lru_cache wrapper
    connections,  \* how many connections to the database file each component
                  \* has open
    cache,        \* the lru_cache of trace_column_lineage, oldest entry first
    last          \* the last Query Engine call: its arguments and its outcome

builderVars == <<sqlDir, metaSchema, store, bpc, pending, inserted, txn, bres, built, preStore>>
engineVars == <<lineageSchema, cache, last>>
concurrentVars == <<rival, workers, connections>>
vars == <<sqlDir, metaSchema, lineageSchema, store, bpc, pending, inserted, txn, bres,
          built, preStore, cache, last, rival, workers, connections>>

NoFacts == [table |-> <<>>, column |-> <<>>]

\* A database that holds the warehouse's own tables and no metadata yet.
\* r.a has rows, r.b is empty and r.c does not exist.
EmptyStore ==
    [schemas |-> {"r", "s"},
     tables |-> [t \in {"r.a", "r.b", "s.f"} |->
                    [columns |-> <<"id", "risk">>,
                     rows |-> IF t = "r.b" THEN <<>> ELSE <<[id |-> "1", risk |-> "H"]>>]]]

\* The columns of the two fact tables, as build() creates them.
TableLineageColumns == <<"target_table", "source_table", "sql_text">>
ColumnLineageColumns ==
    <<"target_table", "target_column", "source_table", "source_column",
      "transformation_logic", "sql_file_name">>

TableLineageOf(schema) == schema \o ".table_lineage"
ColumnLineageOf(schema) == schema \o ".column_lineage"

\* f with x mapped to v, x added to the domain when it is new.
Put(f, x, v) == [y \in DOMAIN f \cup {x} |-> IF y = x THEN v ELSE f[y]]

\* The threads of the process that call the engine at the same time.
MaxThreads == 2
Threads == 1..MaxThreads

\* A thread that is not inside trace_column_lineage.
Resting == [pc |-> "resting"]

\* No call of the engine has been made, or its result has been dropped.
NoCall == [op |-> "none", taken |-> TRUE]

\* The components that connect: build(), a second build() in flight and the
\* Query Engine's connector.
Owners == {"build", "rival", "engine"}
NoConnections == [owner \in Owners |-> 0]

\* A _connect() that never closed would leave the connection open.
LeftOpen(handles, owner) == handles

\* _connect(): con = duckdb.connect(...) before the try.
Connected(handles, owner) == [handles EXCEPT ![owner] = @ + 1]

\* _connect(): finally: con.close(), however the with block is left.
Closed(handles, owner) == [handles EXCEPT ![owner] = @ - 1]

\* execute(), reads times: with self._connect() as con around one query.
RECURSIVE Scoped(_, _)
Scoped(handles, reads) ==
    IF reads = 0 THEN handles
    ELSE Scoped(Closed(Connected(handles, "engine"), "engine"), reads - 1)

Init ==
    /\ sqlDir \in 1..Len(Dirs)
    /\ metaSchema \in Namespaces
    /\ lineageSchema \in Namespaces
    /\ store = EmptyStore
    /\ bpc = "idle"
    /\ pending = NoFacts
    /\ inserted = 0
    /\ txn = EmptyStore
    /\ bres = [how |-> "none", ret |-> "none"]
    /\ built = [dir |-> 0, facts |-> NoFacts]
    /\ preStore = EmptyStore
    /\ cache = <<>>
    /\ last = NoCall
    /\ rival = "idle"
    /\ workers = [t \in Threads |-> Resting]
    /\ connections = NoConnections

(***************************************************************************)
(* build_metadata.py: MetadataBuilder.build, one action per statement it   *)
(* sends to the database. The database is DuckDB: DDL and DML are          *)
(* transactional, a transaction's changes are visible to others at COMMIT  *)
(* only, and closing a connection discards its open transaction.           *)
(***************************************************************************)
\* The scripts are edited between build passes.
EditScripts(d) ==
    /\ bpc = "idle"
    /\ d # sqlDir
    /\ sqlDir' = d
    /\ UNCHANGED <<metaSchema, store, bpc, pending, inserted, txn, bres, built, preStore>>
    /\ UNCHANGED engineVars
    /\ UNCHANGED concurrentVars

\* CREATE TABLE IF NOT EXISTS name (columns), which build() does not use: an
\* existing table would keep its rows.
CreateIfNotExists(db, name, columns) ==
    IF name \in DOMAIN db.tables THEN db
    ELSE [db EXCEPT !.tables = Put(db.tables, name, [columns |-> columns, rows |-> <<>>])]

\* CREATE OR REPLACE TABLE name (columns): the table exists and is empty.
CreateOrReplace(db, name, columns) ==
    [db EXCEPT !.tables = Put(db.tables, name, [columns |-> columns, rows |-> <<>>])]

\* INSERT INTO name VALUES row
InsertInto(db, name, row) == [db EXCEPT !.tables[name].rows = Append(@, row)]

\* main() starts an interpreter, which draws its hash seed; build() returns
\* False when the directory has no .sql file, parses the files and opens
\* the read-write connection.
BuildStart(seed, connected) ==
    /\ bpc = "idle"
    /\ IF GlobSql[Dirs[sqlDir]] = {}
       THEN /\ bres' = [how |-> "noscripts", ret |-> "False"]
            /\ UNCHANGED <<bpc, pending, built>>
       ELSE /\ built' = [dir |-> sqlDir, facts |-> Extracted(sqlDir, seed)]
            /\ IF connected
               THEN /\ bpc' = "connected"
                    /\ pending' = Extracted(sqlDir, seed)
                    /\ bres' = [how |-> "running", ret |-> "none"]
               ELSE /\ bres' = [how |-> "raised", ret |-> "none"]
                    /\ UNCHANGED <<bpc, pending>>
    /\ connections' = IF GlobSql[Dirs[sqlDir]] # {} /\ connected
                      THEN Connected(connections, "build") ELSE connections
    /\ UNCHANGED <<sqlDir, metaSchema, store, inserted, txn, preStore>>
    /\ UNCHANGED engineVars
    /\ UNCHANGED <<rival, workers>>

\* con.execute('BEGIN TRANSACTION')
BuildBegin ==
    /\ bpc = "connected"
    /\ bpc' = "begun"
    /\ txn' = store
    /\ preStore' = store
    /\ UNCHANGED <<sqlDir, metaSchema, store, pending, inserted, bres, built>>
    /\ UNCHANGED engineVars
    /\ UNCHANGED concurrentVars

\* con.execute(f'CREATE SCHEMA IF NOT EXISTS {self.meta_schema}')
BuildCreateSchema ==
    /\ bpc = "begun"
    /\ bpc' = "schema"
    /\ txn' = [txn EXCEPT !.schemas = @ \cup {metaSchema}]
    /\ UNCHANGED <<sqlDir, metaSchema, store, pending, inserted, bres, built, preStore>>
    /\ UNCHANGED engineVars
    /\ UNCHANGED concurrentVars

\* CREATE OR REPLACE TABLE {meta_schema}.table_lineage (...)
BuildCreateTableLineage ==
    /\ bpc = "schema"
    /\ bpc' = "table_lineage"
    /\ txn' = CreateOrReplace(txn, TableLineageOf(metaSchema), TableLineageColumns)
    /\ UNCHANGED <<sqlDir, metaSchema, store, pending, inserted, bres, built, preStore>>
    /\ UNCHANGED engineVars
    /\ UNCHANGED concurrentVars

\* CREATE OR REPLACE TABLE {meta_schema}.column_lineage (...)
BuildCreateColumnLineage ==
    /\ bpc = "table_lineage"
    /\ bpc' = "insert"
    /\ txn' = CreateOrReplace(txn, ColumnLineageOf(metaSchema), ColumnLineageColumns)
    /\ UNCHANGED <<sqlDir, metaSchema, store, pending, inserted, bres, built, preStore>>
    /\ UNCHANGED engineVars
    /\ UNCHANGED concurrentVars

\* One INSERT of the loop over all_table.
BuildInsertTable ==
    /\ bpc = "insert"
    /\ inserted < Len(pending.table)
    /\ inserted' = inserted + 1
    /\ txn' = InsertInto(txn, TableLineageOf(metaSchema), pending.table[inserted + 1])
    /\ UNCHANGED <<sqlDir, metaSchema, store, bpc, pending, bres, built, preStore>>
    /\ UNCHANGED engineVars
    /\ UNCHANGED concurrentVars

\* One INSERT of the loop over all_column.
BuildInsertColumn ==
    /\ bpc = "insert"
    /\ inserted >= Len(pending.table)
    /\ inserted < Len(pending.table) + Len(pending.column)
    /\ inserted' = inserted + 1
    /\ txn' = InsertInto(txn, ColumnLineageOf(metaSchema),
                         pending.column[inserted + 1 - Len(pending.table)])
    /\ UNCHANGED <<sqlDir, metaSchema, store, bpc, pending, bres, built, preStore>>
    /\ UNCHANGED engineVars
    /\ UNCHANGED concurrentVars

\* build() is left: its connection is closed, which ends the transaction, and
\* its local variables are gone.
BuildReturns ==
    /\ pending' = NoFacts
    /\ inserted' = 0
    /\ txn' = EmptyStore
    /\ connections' = Closed(connections, "build")

\* con.execute('COMMIT'), the connection is closed and build() returns True.
BuildCommit ==
    /\ bpc = "insert"
    /\ inserted = Len(pending.table) + Len(pending.column)
    /\ store' = txn
    /\ bpc' = "idle"
    /\ bres' = [how |-> "committed", ret |-> "True"]
    /\ BuildReturns
    /\ UNCHANGED <<sqlDir, metaSchema, built, preStore>>
    /\ UNCHANGED engineVars
    /\ UNCHANGED <<rival, workers>>

\* A database whose statements take effect one by one would keep what the
\* failed pass wrote.
KeepWritten(committed, working) == working

\* What the except branch leaves in the database: con.execute('ROLLBACK')
\* drops the transaction's changes, and so does closing the connection when
\* the ROLLBACK itself raises.
AfterRollback(committed, working) == committed

\* A statement after BEGIN raises (a re-creation, an INSERT or the COMMIT):
\* the except branch rolls back and build() returns False; when the ROLLBACK
\* raises too, the exception leaves build().
BuildFail(rollbackOk) ==
    /\ bpc \in {"begun", "schema", "table_lineage", "insert"}
    /\ store' = AfterRollback(store, txn)
    /\ bpc' = "idle"
    /\ bres' = IF rollbackOk THEN [how |-> "rolledback", ret |-> "False"]
               ELSE [how |-> "raised", ret |-> "none"]
    /\ BuildReturns
    /\ UNCHANGED <<sqlDir, metaSchema, built, preStore>>
    /\ UNCHANGED engineVars
    /\ UNCHANGED <<rival, workers>>

\* BEGIN itself raises: the except branch's ROLLBACK finds no transaction and
\* raises, and the exception leaves build().
BuildFailBegin ==
    /\ bpc = "connected"
    /\ bpc' = "idle"
    /\ bres' = [how |-> "raised", ret |-> "none"]
    /\ BuildReturns
    /\ UNCHANGED <<sqlDir, metaSchema, store, built, preStore>>
    /\ UNCHANGED engineVars
    /\ UNCHANGED <<rival, workers>>

Build ==
    \/ \E seed \in 0..MaxSeed, connected \in BOOLEAN : BuildStart(seed, connected)
    \/ BuildBegin
    \/ BuildCreateSchema
    \/ BuildCreateTableLineage
    \/ BuildCreateColumnLineage
    \/ BuildInsertTable
    \/ BuildInsertColumn
    \/ BuildCommit
    \/ \E rollbackOk \in BOOLEAN : BuildFail(rollbackOk)
    \/ BuildFailBegin

\* build() is called again, by another thread or another process, while a
\* pass is in flight. Nothing in build() waits for the pass that runs: in
\* the same process duckdb.connect gives the second pass a connection of its
\* own to the open database, and its BEGIN opens a second transaction; from
\* another process the connection is refused and build() raises.
RivalStart(connected) ==
    /\ bpc # "idle"
    /\ rival = "idle"
    /\ GlobSql[Dirs[sqlDir]] # {}
    /\ rival' = IF connected THEN "begun" ELSE "idle"
    /\ connections' = IF connected THEN Connected(connections, "rival") ELSE connections
    /\ UNCHANGED builderVars
    /\ UNCHANGED engineVars
    /\ UNCHANGED workers

\* A statement of the second pass fails, as its re-creation of a table that
\* the other transaction has re-created does: its transaction is rolled back
\* and its connection closed, and nothing of it reaches the database.
RivalFail ==
    /\ rival = "begun"
    /\ rival' = "idle"
    /\ connections' = Closed(connections, "rival")
    /\ UNCHANGED builderVars
    /\ UNCHANGED engineVars
    /\ UNCHANGED workers

(***************************************************************************)
(* debug_engine.py: DuckDBConnector and DebugEngine. Every execute() opens *)
(* a read-only connection of its own and closes it; it raises when the     *)
(* connection or the query fails. reads counts the execute() calls of one  *)
(* operation, and failAt names the one that raises (0: none).              *)
(***************************************************************************)
\* The execute() calls of one operation that may be made to raise: 1..MaxFailAt.
MaxFailAt == 2

\* lru_cache(maxsize=100), scaled down to the keys the model calls with.
MaxSize == 1

\* Statements that wrote would leave the fact tables changed: here, gone.
Overwritten(db, reads) == IF reads > 0 THEN EmptyStore ELSE db

\* The database after the execute() calls of an operation, reads of them:
\* each opens a read-only connection, runs one SELECT and closes it.
Executed(db, reads) == db

\* The database file is locked while a build pass holds its read-write
\* connection: the first read-only connection of an operation fails.
CanFail(failAt) == failAt \in 0..MaxFailAt /\ (bpc # "idle" => failAt = 1)

\* str.split(sep) with a separator of one character
Split[s \in STRING, sep \in STRING] ==
    [k \in 1..(Cardinality({i \in 1..Len(s) : CharAt(s, i) = sep}) + 1) |->
        Fragment[s, SortedSeq[{i \in 1..Len(s) : CharAt(s, i) = sep}], k]]

\* information_schema.tables WHERE table_schema = schema: the table names.
TablesIn(db, schema) ==
    {name \in DOMAIN db.tables :
        Len(name) > Len(schema) + 1 /\ SubSeq(name, 1, Len(schema) + 1) = schema \o "."}

\* _check_metadata_exists: the tables of schema 'meta', named "meta." and
\* their table name, hold the configured table.
MetadataExists(db, table) ==
    table \in {"meta." \o SubSeq(name, Len("meta.") + 1, Len(name)) : name \in TablesIn(db, "meta")}

\* The reports of trace_column_lineage. The glyphs outside ASCII are written
\* as [X] (cross mark), | (box side), [?], [@] and [=] (the emoji), and the
\* box borders as +===+.
MetadataMissing(table) ==
    "[X] Metadata table not found: " \o table \o "\n"
        \o "   Run build_metadata.py first to create lineage data."

LineageNotFound(target_table, target_column) ==
    "[X] No lineage found for: " \o target_table \o "." \o target_column \o "\n"
        \o "\n"
        \o "Possible reasons:\n"
        \o "  - Column doesn't exist in metadata\n"
        \o "  - Run build_metadata.py to refresh\n"
        \o "  - Column might be a simple pass-through"

QueryError == "[X] Query error: IO Error"

\* The report lines of one field of the row.
FieldLines[col \in STRING, value \in STRING] ==
    IF value = "" \/ Strip[value] = "" THEN <<>>
    ELSE IF \E i \in 1..Len(value) : CharAt(value, i) = "\n"
    THEN <<"|  [=] " \o col \o ":">>
             \o [k \in 1..Len(Split[value, "\n"]) |-> "|     " \o Split[value, "\n"][k]]
    ELSE <<"|  [=] " \o col \o ": " \o value>>

\* The report built from the first matching row.
LineageReport[row \in ColumnLineages] ==
    Join[<<"",
           "+===============+",
           "|  [?] COLUMN LINEAGE REPORT",
           "+===============+",
           "|  [@] Target: " \o row.target_table \o "." \o row.target_column,
           "|">>
         \o FieldLines["source_table", row.source_table]
         \o FieldLines["source_column", row.source_column]
         \o FieldLines["transformation_logic", row.transformation_logic]
         \o FieldLines["sql_file_name", row.sql_file_name]
         \o <<"|", "+===============+", "">>,
         "\n"]

\* SELECT * FROM table WHERE target_table = ? AND target_column = ?
Matching(db, table, target_table, target_column) ==
    SelectSeq(db.tables[table].rows,
              LAMBDA row : row.target_table = target_table /\ row.target_column = target_column)

\* The body of trace_column_lineage: how the call ends, what it returns and
\* how many execute() calls it made.
trace_column_lineage(db, table, target_table, target_column, failAt) ==
    IF ~validate_identifier(target_table) \/ ~validate_identifier(target_column)
    THEN [outcome |-> "InvalidIdentifier", result |-> "", reads |-> 0]
    ELSE IF failAt = 1
    THEN [outcome |-> "StoreError", result |-> "", reads |-> 1]
    ELSE IF ~MetadataExists(db, table)
    THEN [outcome |-> "returned", result |-> MetadataMissing(table), reads |-> 1]
    ELSE IF failAt = 2
    THEN [outcome |-> "returned", result |-> QueryError, reads |-> 2]
    ELSE IF Matching(db, table, target_table, target_column) = <<>>
    THEN [outcome |-> "returned", result |-> LineageNotFound(target_table, target_column),
          reads |-> 2]
    ELSE [outcome |-> "returned", reads |-> 2,
          result |-> LineageReport[Matching(db, table, target_table, target_column)[1]]]

\* The cache entries other than key's, oldest first.
Others(entries, key) == SelectSeq(entries, LAMBDA e : e.key # key)

\* The lru_cache wrapper on a hit: the entry becomes the most recently used.
CacheHit(entries, key) ==
    Others(entries, key) \o SelectSeq(entries, LAMBDA e : e.key = key)

\* A cache without a bound would keep every entry.
StoreUnbounded(entries, key, value) == Append(entries, [key |-> key, value |-> value])

\* The lru_cache wrapper after a miss that returned: the result is stored,
\* and the least recently used entry is dropped when the cache is full.
CacheStore(entries, key, value) ==
    LET all == Append(entries, [key |-> key, value |-> value])
    IN  IF Len(all) > MaxSize THEN Tail(all) ELSE all

\* A wrapper that looks nothing up calls the method every time.
NeverCached(entries, key) == FALSE

IsCached(entries, key) == \E i \in 1..Len(entries) : entries[i].key = key

CachedValue(entries, key) == entries[CHOOSE i \in 1..Len(entries) : entries[i].key = key].value

\* The arguments the model calls trace_column_lineage with.
TraceArgs == {<<"s.f", "risk">>, <<"r.a", "tot">>, <<"s.f", "risk;">>}

\* The record of a call of a cached method.
Traced(key, outcome, result, reads) ==
    [op |-> "trace_column_lineage", args |-> key, outcome |-> outcome, result |-> result,
     reads |-> reads, taken |-> FALSE]

\* The caller has the result of its last call, and may call again.
Ready == last.taken

\* The caller takes the result of its call and keeps it.
TakeResult ==
    /\ ~last.taken
    /\ last' = [last EXCEPT !.taken = TRUE]
    /\ UNCHANGED builderVars
    /\ UNCHANGED concurrentVars
    /\ UNCHANGED <<lineageSchema, cache>>

\* The caller takes the result of its call and keeps nothing of it.
DropResult ==
    /\ ~last.taken
    /\ last' = NoCall
    /\ UNCHANGED builderVars
    /\ UNCHANGED concurrentVars
    /\ UNCHANGED <<lineageSchema, cache>>

\* engine.trace_column_lineage(target_table, target_column): the lru_cache
\* wrapper returns the stored result of the key, or calls the method and
\* stores what it returns (not what it raises).
TraceColumnLineage(key, failAt) ==
    /\ Ready
    /\ CanFail(failAt)
    /\ IF IsCached(cache, key)
       THEN /\ cache' = CacheHit(cache, key)
            /\ last' = Traced(key, "returned", CachedValue(cache, key), 0)
       ELSE \E miss \in {trace_column_lineage(store, ColumnLineageOf(lineageSchema),
                                              key[1], key[2], failAt)} :
                /\ cache' = IF miss.outcome = "returned"
                            THEN CacheStore(cache, key, miss.result) ELSE cache
                /\ last' = Traced(key, miss.outcome, miss.result, miss.reads)
    /\ store' = Executed(store, last'.reads)
    /\ connections' = Scoped(connections, last'.reads)
    /\ UNCHANGED <<sqlDir, metaSchema, bpc, pending, inserted, txn, bres, built, preStore>>
    /\ UNCHANGED <<rival, workers>>
    /\ UNCHANGED lineageSchema

\* A clear_cache() without effect would keep the entries.
KeepEntries(entries) == entries

\* clear_cache(): trace_column_lineage.cache_clear()
CleanCache(entries) == <<>>

\* engine.clear_cache()
ClearCache ==
    /\ Ready
    /\ cache' = CleanCache(cache)
    /\ last' = [op |-> "clear_cache", taken |-> FALSE]
    /\ UNCHANGED builderVars
    /\ UNCHANGED concurrentVars
    /\ UNCHANGED lineageSchema

\* The lru_cache wrapper when the method has returned: under the wrapper's
\* lock, the result is stored unless another thread has stored the key in
\* the meantime.
CacheInsert(entries, key, value) ==
    IF IsCached(entries, key) THEN entries ELSE CacheStore(entries, key, value)

\* Thread t calls trace_column_lineage(key): under its lock the wrapper
\* looks the key up; on a hit it has the result, on a miss it releases the
\* lock and calls the method.
WorkerCall(t, key) ==
    /\ workers[t].pc = "resting"
    /\ IF IsCached(cache, key)
       THEN /\ cache' = CacheHit(cache, key)
            /\ workers' = [workers EXCEPT ![t] =
                   [pc |-> "returning", key |-> key, hit |-> TRUE, outcome |-> "returned",
                    result |-> CachedValue(cache, key)]]
       ELSE /\ workers' = [workers EXCEPT ![t] = [pc |-> "computing", key |-> key]]
            /\ UNCHANGED cache
    /\ UNCHANGED builderVars
    /\ UNCHANGED <<lineageSchema, last, rival, connections>>

\* The method called by thread t ends: what it returns is stored, what it
\* raises is not.
WorkerCompute(t, failAt) ==
    /\ workers[t].pc = "computing"
    /\ CanFail(failAt)
    /\ \E miss \in {trace_column_lineage(store, ColumnLineageOf(lineageSchema),
                                         workers[t].key[1], workers[t].key[2], failAt)} :
           /\ cache' = IF miss.outcome = "returned"
                       THEN CacheInsert(cache, workers[t].key, miss.result) ELSE cache
           /\ workers' = [workers EXCEPT ![t] =
                  [pc |-> "returning", key |-> workers[t].key, hit |-> FALSE,
                   outcome |-> miss.outcome, result |-> miss.result]]
           /\ store' = Executed(store, miss.reads)
           /\ connections' = Scoped(connections, miss.reads)
    /\ UNCHANGED <<sqlDir, metaSchema, bpc, pending, inserted, txn, bres, built, preStore>>
    /\ UNCHANGED <<lineageSchema, last, rival>>

\* The wrapper hands thread t its result.
WorkerReturn(t) ==
    /\ workers[t].pc = "returning"
    /\ workers' = [workers EXCEPT ![t] = Resting]
    /\ UNCHANGED builderVars
    /\ UNCHANGED <<lineageSchema, cache, last, rival, connections>>

(***************************************************************************)
(* debug_engine.py: the operations that are not cached. Each is an         *)
(* operator from the database, the arguments and failAt to how the call    *)
(* ends (returned, or the exception that leaves it), what it returns and   *)
(* the number of the last execute() call: the calls are counted from n.    *)
(***************************************************************************)
Returned(result, reads) == [outcome |-> "returned", result |-> result, reads |-> reads]

\* The exception kind leaves the operation.
Raised(kind, reads) == [outcome |-> kind, result |-> <<>>, reads |-> reads]

\* The names of a set in increasing order (ORDER BY). All names are word
\* characters and dots, so the order of the qualified names is the order by
\* schema and then by table name.
FirstName[names \in SUBSET STRING] ==
    CHOOSE n \in names : \A m \in names : m = n \/ StrLess[n, m]

SortedNames[names \in SUBSET STRING] ==
    IF names = {} THEN <<>>
    ELSE <<FirstName[names]>> \o SortedNames[names \ {FirstName[names]}]

\* The rows of information_schema.tables for the qualified names.
TableEntries[names \in Seq(STRING)] ==
    [k \in 1..Len(names) |->
        [table_schema |-> Split[names[k], "."][1], table_name |-> Split[names[k], "."][2]]]

\* DuckDBConnector.get_tables(schema), schema being <<>> when it is not given.
get_tables(db, schema, failAt) ==
    IF schema # <<>> /\ schema[1] # ""
    THEN IF ~validate_identifier(schema[1]) THEN Raised("InvalidIdentifier", 0)
         ELSE IF failAt = 1 THEN Raised("StoreError", 1)
         ELSE Returned(TableEntries[SortedNames[TablesIn(db, schema[1])]], 1)
    ELSE IF failAt = 1 THEN Raised("StoreError", 1)
    ELSE Returned(TableEntries[SortedNames[DOMAIN db.tables]], 1)

\* DuckDBConnector.get_schemas()
get_schemas(db, failAt) ==
    IF failAt = 1 THEN Raised("StoreError", 1)
    ELSE Returned(SortedNames[{Split[name, "."][1] : name \in DOMAIN db.tables}], 1)

\* DebugEngine.describe_table
describe_table(db, table, failAt) ==
    IF ~validate_identifier(table) THEN Raised("InvalidIdentifier", 0)
    ELSE IF failAt = 1 \/ table \notin DOMAIN db.tables THEN Raised("StoreError", 1)
    ELSE Returned([k \in 1..Len(db.tables[table].columns) |->
                      [column_name |-> db.tables[table].columns[k]]], 1)

\* DebugEngine.get_row_count, its execute() being call number n + 1.
get_row_count(db, table, n, failAt) ==
    IF ~validate_identifier(table) THEN Raised("InvalidIdentifier", n)
    ELSE IF failAt = n + 1 \/ table \notin DOMAIN db.tables THEN Raised("StoreError", n + 1)
    ELSE Returned(Len(db.tables[table].rows), n + 1)

\* SELECT DISTINCT: the values of a sequence, each once, in the order of
\* their first occurrence.
Distinct[values \in Seq(STRING)] ==
    [k \in 1..Cardinality({values[i] : i \in 1..Len(values)}) |->
        values[SortedSeq[{i \in 1..Len(values) : \A j \in 1..(i - 1) : values[j] # values[i]}][k]]]

\* SELECT DISTINCT source_table FROM table WHERE target_table = ?
SourcesOf(db, table, target_table) ==
    Distinct[[k \in 1..Len(SelectSeq(db.tables[table].rows,
                                      LAMBDA row : row.target_table = target_table)) |->
                 SelectSeq(db.tables[table].rows,
                           LAMBDA row : row.target_table = target_table)[k].source_table]]

\* DebugEngine.get_upstream_tables, table being self.table_lineage_table.
get_upstream_tables(db, table, target_table, n, failAt) ==
    IF ~validate_identifier(target_table) THEN Raised("InvalidIdentifier", n)
    ELSE IF failAt = n + 1 THEN Raised("StoreError", n + 1)
    ELSE IF ~MetadataExists(db, table) THEN Returned(<<>>, n + 1)
    ELSE IF failAt = n + 2 THEN Returned(<<>>, n + 2)
    ELSE Returned(SourcesOf(db, table, target_table), n + 2)

\* The leaves of a lineage tree: {"_truncated": True} and {"_is_source": True}.
Truncated == [leaf \in {"_truncated"} |-> TRUE]
IsSource == [leaf \in {"_is_source"} |-> TRUE]

\* max_depth < 0 would let depth 0 read the store.
DepthNegative(max_depth) == max_depth < 0

\* max_depth <= 0
DepthExhausted(max_depth) == max_depth <= 0

RECURSIVE get_lineage_tree(_, _, _, _, _, _)
RECURSIVE Subtrees(_, _, _, _, _, _)
\* The loop of get_lineage_tree over upstream: tree[source] is the tree of
\* source, and an exception of a recursive call leaves the loop.
Subtrees(db, table, upstream, max_depth, n, failAt) ==
    IF upstream = <<>> THEN Returned(<<>>, n)
    ELSE CHOOSE tree \in
        {IF first.outcome # "returned" THEN first
         ELSE CHOOSE all \in
             {IF rest.outcome # "returned" THEN rest
              ELSE Returned(Put(rest.result, Head(upstream), first.result), rest.reads) :
                  rest \in {Subtrees(db, table, Tail(upstream), max_depth, first.reads, failAt)}} :
             TRUE :
             first \in {get_lineage_tree(db, table, Head(upstream), max_depth - 1, n, failAt)}} :
        TRUE

\* DebugEngine.get_lineage_tree, table being self.table_lineage_table.
get_lineage_tree(db, table, target_table, max_depth, n, failAt) ==
    IF ~validate_identifier(target_table) THEN Raised("InvalidIdentifier", n)
    ELSE IF DepthExhausted(max_depth) THEN Returned(Truncated, n)
    ELSE CHOOSE tree \in
        {IF upstream.outcome # "returned" THEN upstream
         ELSE IF upstream.result = <<>> THEN Returned(IsSource, upstream.reads)
         ELSE Subtrees(db, table, upstream.result, max_depth, upstream.reads, failAt) :
             upstream \in {get_upstream_tables(db, table, target_table, n, failAt)}} :
        TRUE

\* A source's entry that takes every row count that was read for healthy
\* (the comparison of line 469 left out).
CountNotCompared(count) ==
    IF count.outcome = "returned"
    THEN [row_count |-> count.result, status |-> "[OK]"]
    ELSE [error |-> count.outcome, status |-> "[X] ERROR"]

\* The entry of check_table_sources for one source. The status glyphs are
\* written [OK], [!] and [X].
SourceStatus(count) ==
    IF count.outcome = "returned"
    THEN [row_count |-> count.result,
          status |-> IF count.result > 0 THEN "[OK]" ELSE "[!] EMPTY"]
    ELSE [error |-> count.outcome, status |-> "[X] ERROR"]

RECURSIVE SourceStats(_, _, _, _)
\* The loop of check_table_sources over upstream: an exception of
\* get_row_count is caught and recorded.
SourceStats(db, upstream, n, failAt) ==
    IF upstream = <<>> THEN Returned(<<>>, n)
    ELSE CHOOSE results \in
        {CHOOSE all \in
             {Returned(Put(rest.result, Head(upstream), SourceStatus(count)), rest.reads) :
                 rest \in {SourceStats(db, Tail(upstream), count.reads, failAt)}} : TRUE :
             count \in {get_row_count(db, Head(upstream), n, failAt)}} :
        TRUE

\* DebugEngine.check_table_sources
check_table_sources(db, table, target_table, failAt) ==
    IF ~validate_identifier(target_table) THEN Raised("InvalidIdentifier", 0)
    ELSE CHOOSE results \in
        {IF upstream.outcome # "returned" THEN upstream
         ELSE IF upstream.result = <<>>
         THEN Returned([error |-> "No upstream tables found for " \o target_table,
                        hint |-> "Check if lineage metadata exists"], upstream.reads)
         ELSE SourceStats(db, upstream.result, upstream.reads, failAt) :
             upstream \in {get_upstream_tables(db, table, target_table, 0, failAt)}} :
        TRUE

\* DebugEngine.inspect_row
inspect_row(db, table, key_column, key_value, failAt) ==
    IF ~validate_identifier(table) \/ ~validate_identifier(key_column)
    THEN Raised("InvalidIdentifier", 0)
    ELSE IF \/ failAt = 1
            \/ table \notin DOMAIN db.tables
            \/ \A k \in 1..Len(db.tables[table].columns) : db.tables[table].columns[k] # key_column
    THEN Returned([error |-> "StoreError"], 1)
    ELSE IF SelectSeq(db.tables[table].rows, LAMBDA row : row[key_column] = key_value) = <<>>
    THEN Returned([status |-> "not_found",
                   message |-> "No row where " \o key_column \o " = " \o key_value], 1)
    ELSE Returned([row |-> SelectSeq(db.tables[table].rows,
                                     LAMBDA row : row[key_column] = key_value)[1]], 1)

\* The record of a call: the operation, its arguments, the execute() call
\* that was made to raise, and how the call ended.
Called(op, args, failAt, call) ==
    [op |-> op, args |-> args, fault |-> failAt, outcome |-> call.outcome,
     result |-> call.result, reads |-> call.reads, taken |-> FALSE]

\* An operation that is not cached is called.
Query(op, args, failAt, call) ==
    /\ Ready
    /\ CanFail(failAt)
    /\ last' = Called(op, args, failAt, call)
    /\ store' = Executed(store, last'.reads)
    /\ connections' = Scoped(connections, last'.reads)
    /\ UNCHANGED <<sqlDir, metaSchema, bpc, pending, inserted, txn, bres, built, preStore>>
    /\ UNCHANGED <<rival, workers>>
    /\ UNCHANGED <<lineageSchema, cache>>

\* The arguments the model calls the operations with.
SchemaArgs == {<<>>, <<"">>, <<"meta">>, <<"r">>, <<"r;">>}
TableArgs == {"s.f", "r.a", "r.b", "r.c", "s.f;"}
RowArgs ==
    {<<"s.f", "risk", "H">>, <<"s.f", "risk", "Z">>, <<"s.f", "nope", "H">>,
     <<"r.c", "risk", "H">>, <<"s.f", "risk;", "H">>, <<"", "risk", "H">>}

\* get_lineage_tree is called with max_depth in 0..MaxDepth or without it.
MaxDepth == 2
DefaultDepth == 5

ListSchemas(failAt) ==
    /\ Query("list_schemas", <<>>, failAt, get_schemas(store, failAt))

ListTables(schema, failAt) ==
    /\ Query("list_tables", schema, failAt, get_tables(store, schema, failAt))

DescribeTable(table, failAt) ==
    /\ Query("describe_table", <<table>>, failAt, describe_table(store, table, failAt))

GetRowCount(table, failAt) ==
    /\ Query("get_row_count", <<table>>, failAt, get_row_count(store, table, 0, failAt))

GetUpstreamTables(target_table, failAt) ==
    /\ Query("get_upstream_tables", <<target_table>>, failAt,
             get_upstream_tables(store, TableLineageOf(lineageSchema), target_table, 0, failAt))

GetLineageTree(target_table, max_depth, failAt) ==
    /\ Query("get_lineage_tree", <<target_table, max_depth>>, failAt,
             get_lineage_tree(store, TableLineageOf(lineageSchema), target_table, max_depth,
                              0, failAt))

CheckTableSources(target_table, failAt) ==
    /\ Query("check_table_sources", <<target_table>>, failAt,
             check_table_sources(store, TableLineageOf(lineageSchema), target_table, failAt))

InspectRow(table, key_column, key_value, failAt) ==
    /\ Query("inspect_row", <<table, key_column, key_value>>, failAt,
             inspect_row(store, table, key_column, key_value, failAt))

(***************************************************************************)
(* validate_identifier applied to every string of at most MaxLen           *)
(* characters of Alphabet, and to the strings the specification names.     *)
(***************************************************************************)
MaxLen == 3

Alphabet == {"a", "Z", "_", "1", ".", ";", "\n"}

\* The strings of n characters of Alphabet.
Words[n \in Nat] ==
    IF n = 0 THEN {""} ELSE {w \o c : w \in Words[n - 1], c \in Alphabet}

Examples ==
    {"emp; DROP TABLE x", "' OR 1=1", "", "raw.employees", "employees", "employees\n"}

Names == UNION {Words[n] : n \in 0..MaxLen} \cup Examples

\* validate_identifier(name) returns the name (accepted) or raises ValueError.
ValidateIdentifier(name) ==
    /\ Ready
    /\ last' = [op |-> "validate_identifier", args |-> name,
                accepted |-> validate_identifier(name), taken |-> FALSE]
    /\ UNCHANGED builderVars
    /\ UNCHANGED concurrentVars
    /\ UNCHANGED <<lineageSchema, cache>>

(***************************************************************************)
(* build_metadata.py: the parser on scripts of its own. A script is a      *)
(* sequence of statements, written with ";" between them.                  *)
(***************************************************************************)
\* The statements the scripts are made of.
Statements ==
    {"CREATE TABLE s.fact AS SELECT CASE WHEN salary > 100000 THEN 'HIGH' ELSE 'LOW' END AS risk_level FROM raw.job_history j JOIN raw.employees e ON j.emp_id = e.emp_id",
     "SELECT 1 FROM r.a",
     "CREATE TABLE t AS SELECT 1 FROM r.a JOIN R.A",
     "CREATE VIEW t AS SELECT 1 FROM r.a x JOIN r.a y JOIN T",
     "CREATE TABLE t AS SELECT CASE WHEN a THEN 1 END AS c, CASE WHEN b THEN 2 END c FROM r.a",
     "CREATE TABLE t AS SELECT SUM(x) AS c, CASE WHEN a THEN 1 END AS c FROM r.a",
     "CREATE TABLE t AS SELECT CASE WHEN a THEN 1 END AS c, SUM(x) AS c, MIN(y) d FROM r.a",
     "CREATE TABLE t AS SELECT MAX(x) AS m",
     "CREATE TABLE u AS SELECT MAX(x) AS m FROM UNKNOWN",
     "CREATE TABLE t AS SELECT 1 /* ; */ FROM r.a",
     "-- n; CREATE TABLE v AS SELECT 1 FROM r.b\n",
     " \n ",
     "create or replace view if not exists S.V as select count(*) n from r.a",
     "CREATE TABLE t AS SELECT MAX(x) AS m FROM t",
     "CREATE TABLE w AS SELECT 1 -- FROM r.x\nFROM r.a /* JOIN r.y */"}

\* The statements of the scripts of several statements.
Paired ==
    {"SELECT 1 FROM r.a",
     "CREATE TABLE t AS SELECT SUM(x) AS c, CASE WHEN a THEN 1 END AS c FROM r.a",
     "CREATE TABLE t AS SELECT MAX(x) AS m",
     "CREATE TABLE t AS SELECT 1 FROM r.a JOIN R.A",
     "CREATE TABLE u AS SELECT MAX(x) AS m FROM UNKNOWN",
     " \n "}

\* A script has at most MaxStatements statements.
MaxStatements == 2

Scripts == [1..1 -> Statements] \cup UNION {[1..n -> Paired] : n \in 2..MaxStatements}

\* A parser that gave up after the first statement would return its facts
\* only.
FirstStatementOnly(content, seed) ==
    parse_file[[name |-> "f.sql",
                content |-> Fragment[content,
                                     SortedSeq[{i \in 1..Len(content) : CharAt(content, i) = ";"}],
                                     1]], seed]

\* parse_file on the file f.sql whose text is content.
ParsedFile(content, seed) == parse_file[[name |-> "f.sql", content |-> content], seed]

\* parser.parse_file(path) on the file f.sql that holds the statements.
ParseFile(statements, seed) ==
    /\ Ready
    /\ last' = [op |-> "parse_file", args |-> statements, seed |-> seed,
                result |-> ParsedFile(Join[statements, ";"], seed),
                taken |-> FALSE]
    /\ UNCHANGED builderVars
    /\ UNCHANGED concurrentVars
    /\ UNCHANGED <<lineageSchema, cache>>

NextBuild ==
    \/ \E d \in 1..Len(Dirs) : EditScripts(d)
    \/ Build

SpecBuild == Init /\ [][NextBuild]_vars

\* Build passes into the default namespace, a second pass started while one
\* is in flight, and reads of the two fact tables.
InitRebuild ==
    /\ Init
    /\ metaSchema = "meta"
    /\ lineageSchema = "meta"

NextRebuild ==
    \/ \E d \in 1..Len(Dirs) : EditScripts(d)
    \/ Build
    \/ \E connected \in BOOLEAN : RivalStart(connected)
    \/ RivalFail
    \/ \E failAt \in 0..MaxFailAt : GetUpstreamTables("s.f", failAt)
    \/ \E failAt \in 0..MaxFailAt : TraceColumnLineage(<<"s.f", "risk">>, failAt)
    \/ DropResult

SpecRebuild == InitRebuild /\ [][NextRebuild]_vars

\* Build passes into the default namespace and every operation of the
\* Query Engine.
NextFrame ==
    \/ Build
    \/ \E failAt \in 0..MaxFailAt : ListSchemas(failAt)
    \/ \E failAt \in 0..MaxFailAt : ListTables(<<"meta">>, failAt)
    \/ \E failAt \in 0..MaxFailAt : DescribeTable("s.f", failAt)
    \/ \E failAt \in 0..MaxFailAt : GetRowCount("s.f", failAt)
    \/ \E failAt \in 0..MaxFailAt : TraceColumnLineage(<<"s.f", "risk">>, failAt)
    \/ \E failAt \in 0..MaxFailAt : GetUpstreamTables("s.f", failAt)
    \/ \E failAt \in 0..MaxFailAt : GetLineageTree("s.f", MaxDepth, failAt)
    \/ \E failAt \in 0..MaxFailAt : CheckTableSources("s.f", failAt)
    \/ \E failAt \in 0..MaxFailAt : InspectRow("s.f", "risk", "H", failAt)
    \/ \E failAt \in 0..MaxFailAt : InspectRow("s.f", "risk;", "H", failAt)
    \/ DropResult

SpecFrame == InitRebuild /\ [][NextFrame]_vars

NextTrace ==
    \/ \E d \in 1..Len(Dirs) : EditScripts(d)
    \/ Build
    \/ \E a \in TraceArgs, failAt \in 0..MaxFailAt : TraceColumnLineage(a, failAt)
    \/ ClearCache
    \/ TakeResult

SpecTrace == Init /\ [][NextTrace]_vars

\* What build() leaves in the database db when it commits facts.
Rebuilt(db, schema, facts) ==
    [schemas |-> db.schemas \cup {schema},
     tables |-> Put(Put(db.tables,
                        TableLineageOf(schema),
                        [columns |-> TableLineageColumns, rows |-> facts.table]),
                    ColumnLineageOf(schema),
                    [columns |-> ColumnLineageColumns, rows |-> facts.column])]

\* The Query Engine on a database that no build pass is writing: the
\* database before the first build, or as a build pass over one of the
\* directories has left it.
InitQuery ==
    /\ metaSchema \in Namespaces
    /\ lineageSchema \in Namespaces
    /\ \/ /\ sqlDir \in 1..Len(Dirs)
          /\ store = EmptyStore
          /\ bres = [how |-> "none", ret |-> "none"]
          /\ built = [dir |-> 0, facts |-> NoFacts]
       \/ \E d \in 1..Len(Dirs), seed \in 0..MaxSeed :
              /\ GlobSql[Dirs[d]] # {}
              /\ sqlDir = d
              /\ store = Rebuilt(EmptyStore, metaSchema, Extracted(d, seed))
              /\ bres = [how |-> "committed", ret |-> "True"]
              /\ built = [dir |-> d, facts |-> Extracted(d, seed)]
    /\ bpc = "idle"
    /\ pending = NoFacts
    /\ inserted = 0
    /\ txn = EmptyStore
    /\ preStore = EmptyStore
    /\ cache = <<>>
    /\ last = NoCall
    /\ rival = "idle"
    /\ workers = [t \in Threads |-> Resting]
    /\ connections = NoConnections

NextQuery ==
    \/ \E failAt \in 0..MaxFailAt : ListSchemas(failAt)
    \/ \E schema \in SchemaArgs, failAt \in 0..MaxFailAt : ListTables(schema, failAt)
    \/ \E table \in TableArgs, failAt \in 0..MaxFailAt : DescribeTable(table, failAt)
    \/ \E table \in TableArgs, failAt \in 0..MaxFailAt : GetRowCount(table, failAt)
    \/ \E a \in TraceArgs, failAt \in 0..MaxFailAt : TraceColumnLineage(a, failAt)
    \/ \E t \in TableArgs, failAt \in 0..MaxFailAt : GetUpstreamTables(t, failAt)
    \/ \E t \in TableArgs, d \in (0..MaxDepth) \cup {DefaultDepth}, failAt \in 0..MaxFailAt :
           GetLineageTree(t, d, failAt)
    \/ \E t \in TableArgs, failAt \in 0..MaxFailAt : CheckTableSources(t, failAt)
    \/ \E a \in RowArgs, failAt \in 0..MaxFailAt : InspectRow(a[1], a[2], a[3], failAt)
    \/ ClearCache
    \/ DropResult

SpecQuery == InitQuery /\ [][NextQuery]_vars

\* Threads that call trace_column_lineage and clear_cache at the same time,
\* on a database that no build pass is writing.
NextCache ==
    \/ \E t \in Threads, key \in TraceArgs : WorkerCall(t, key)
    \/ \E t \in Threads, failAt \in 0..MaxFailAt : WorkerCompute(t, failAt)
    \/ \E t \in Threads : WorkerReturn(t)
    \/ ClearCache
    \/ DropResult

SpecCache == InitQuery /\ [][NextCache]_vars

NextParse ==
    \/ \E statements \in Scripts, seed \in 0..MaxSeed : ParseFile(statements, seed)
    \/ DropResult

\* The parser alone: no build pass runs and the database is not used.
InitParse ==
    /\ InitRebuild
    /\ sqlDir = 1

SpecParse == InitParse /\ [][NextParse]_vars

NextIdent ==
    \/ \E name \in Names : ValidateIdentifier(name)
    \/ DropResult

SpecIdent == Init /\ [][NextIdent]_vars

(***************************************************************************)
(* The properties.                                                         *)
(***************************************************************************)
\* The transaction of the running build pass is open.
Writing == bpc \in {"begun", "schema", "table_lineage", "insert"}

\* C1: Build atomicity. From BEGIN until the pass ends, and when the pass
\* ends in any way but COMMIT (a failing schema creation, re-creation of a
\* fact table or INSERT, whether build() then returns False or the ROLLBACK
\* raises too), the database holds exactly what it held at that BEGIN: a
\* partly replaced fact set is never committed.
BuildAtomicity ==
    [][(Writing /\ bres'.how # "committed") => (store' = preStore /\ preStore' = preStore)]_vars

\* A pass failed and was rolled back over the facts of an earlier pass, which
\* differ from the facts the failed pass had extracted.
BuildRolledBack ==
    /\ bres.how = "rolledback"
    /\ TableLineageOf(metaSchema) \in DOMAIN store.tables
    /\ store.tables[TableLineageOf(metaSchema)].rows # built.facts.table
    /\ store.tables[TableLineageOf(metaSchema)].rows # <<>>

\* How many times fact stands in rows.
Count(rows, fact) == Cardinality({i \in 1..Len(rows) : rows[i] = fact})

\* The same facts, each as many times.
SameFacts(rows, facts) ==
    \A fact \in {rows[i] : i \in 1..Len(rows)} \cup {facts[i] : i \in 1..Len(facts)} :
        Count(rows, fact) = Count(facts, fact)

\* C2: Replace, not merge. Once build() has returned success, the two fact
\* tables hold exactly the facts extracted in that pass, each as many times as
\* it was extracted, and no fact of an earlier pass.
ReplaceNotMerge ==
    bres.how = "committed" =>
        /\ TableLineageOf(metaSchema) \in DOMAIN store.tables
        /\ ColumnLineageOf(metaSchema) \in DOMAIN store.tables
        /\ SameFacts(store.tables[TableLineageOf(metaSchema)].rows, built.facts.table)
        /\ SameFacts(store.tables[ColumnLineageOf(metaSchema)].rows, built.facts.column)

\* A pass committed over the facts of an earlier pass, one of which the pass
\* did not extract.
ReplacedEarlierFacts ==
    /\ bres.how = "committed"
    /\ ColumnLineageOf(metaSchema) \in DOMAIN preStore.tables
    /\ \E i \in 1..Len(preStore.tables[ColumnLineageOf(metaSchema)].rows) :
           Count(built.facts.column, preStore.tables[ColumnLineageOf(metaSchema)].rows[i]) = 0

\* C3: Build determinism. A build pass over the scripts the pass before it
\* read extracts the same facts, field by field and in the same order.
BuildDeterminism ==
    [][(built.dir # 0 /\ built'.dir = built.dir) => built'.facts = built.facts]_vars

\* A call of trace_column_lineage is made in this step.
TraceCalled == last.taken /\ ~last'.taken /\ last'.op = "trace_column_lineage"

\* C4: trace_column_lineage negative outcomes. A call with a valid target
\* and column that reads the store, the reads succeeding, returns the
\* "metadata missing" report exactly when the column-lineage table is not in
\* the store, and the "no lineage found" report exactly when the table is
\* there and holds no row of this target and column; the two texts differ.
NegativeOutcomes ==
    [][(/\ TraceCalled
        /\ last'.outcome = "returned"
        /\ last'.reads > 0
        /\ last'.result # QueryError)
       => /\ last'.result = MetadataMissing(ColumnLineageOf(lineageSchema))
              <=> ColumnLineageOf(lineageSchema) \notin DOMAIN store.tables
          /\ last'.result = LineageNotFound(last'.args[1], last'.args[2])
              <=> /\ ColumnLineageOf(lineageSchema) \in DOMAIN store.tables
                  /\ Matching(store, ColumnLineageOf(lineageSchema),
                              last'.args[1], last'.args[2]) = <<>>
          /\ MetadataMissing(ColumnLineageOf(lineageSchema))
                 # LineageNotFound(last'.args[1], last'.args[2])]_vars

\* The reports a call that reads the store can return for key.
FreshReports(db, table, key) ==
    {trace_column_lineage(db, table, key[1], key[2], failAt).result :
        failAt \in {f \in 0..MaxFailAt :
                       trace_column_lineage(db, table, key[1], key[2], f).outcome = "returned"}}

\* C5: Cache coherence. A trace_column_lineage call that follows a call with
\* the same arguments which returned, no other engine call between them,
\* returns the same text without reading the store; and the call that follows
\* clear_cache() reads the store and returns a report of the store as it is
\* then.
CacheCoherence ==
    [][/\ (/\ TraceCalled
           /\ last.op = "trace_column_lineage"
           /\ last.outcome = "returned"
           /\ last'.args = last.args)
          => /\ last'.outcome = "returned"
             /\ last'.result = last.result
             /\ last'.reads = 0
       /\ (/\ TraceCalled
           /\ last.op = "clear_cache"
           /\ validate_identifier(last'.args[1])
           /\ validate_identifier(last'.args[2]))
          => /\ last'.reads >= 1
             /\ last'.outcome = "returned" =>
                    last'.result \in FreshReports(store, ColumnLineageOf(lineageSchema),
                                                  last'.args)]_vars

\* A call was answered from the cache with a lineage report.
AnsweredFromCache ==
    /\ last.op = "trace_column_lineage"
    /\ last.outcome = "returned"
    /\ last.reads = 0
    /\ last.result \notin {MetadataMissing(ColumnLineageOf(lineageSchema)),
                           LineageNotFound(last.args[1], last.args[2]), QueryError}

\* C6: No automatic invalidation. No step of a build pass changes the cache,
\* and a call whose arguments have an entry returns the entry's report,
\* whatever the store holds by then; the entry is still there afterwards.
NoAutomaticInvalidation ==
    [][/\ builderVars' # builderVars => cache' = cache
       /\ (TraceCalled /\ \E i \in 1..Len(cache) : cache[i].key = last'.args)
          => /\ last'.outcome = "returned"
             /\ \E i \in 1..Len(cache) :
                    cache[i].key = last'.args /\ cache[i].value = last'.result
             /\ \E i \in 1..Len(cache') :
                    cache'[i].key = last'.args /\ cache'[i].value = last'.result]_vars

\* A call was answered from the cache with a report that a rebuild has made
\* stale: the store would now give another.
StaleReport ==
    /\ last.op = "trace_column_lineage"
    /\ last.outcome = "returned"
    /\ last.reads = 0
    /\ bpc = "idle"
    /\ bres.how = "committed"
    /\ last.result # trace_column_lineage(store, ColumnLineageOf(lineageSchema),
                                          last.args[1], last.args[2], 0).result

\* name = [A-Za-z_][A-Za-z0-9_]*, the whole of s
IsName(s) ==
    /\ Len(s) >= 1
    /\ CharAt(s, 1) \in IdentStart
    /\ \A i \in 2..Len(s) : CharAt(s, i) \in IdentRest

\* name or schema.name, the whole of s
IsIdentifier(s) ==
    \/ IsName(s)
    \/ \E k \in 2..(Len(s) - 1) :
           /\ CharAt(s, k) = "."
           /\ IsName(SubSeq(s, 1, k - 1))
           /\ IsName(SubSeq(s, k + 1, Len(s)))

\* C7: Identifier acceptance. validate_identifier accepts a string if and
\* only if the whole string is name or schema.name, no character more, a line
\* break included; it rejects "emp; DROP TABLE x", "' OR 1=1" and "" and
\* accepts "raw.employees" and "employees".
IdentifierAcceptance ==
    last.op = "validate_identifier" =>
        /\ last.accepted <=> IsIdentifier(last.args)
        /\ last.args \in {"emp; DROP TABLE x", "' OR 1=1", ""} => ~last.accepted
        /\ last.args \in {"raw.employees", "employees"} => last.accepted

\* The identifier arguments of a call.
IdentifierArgs(call) ==
    IF call.op = "list_tables" THEN {call.args[i] : i \in 1..Len(call.args)}
    ELSE IF call.op \in {"describe_table", "get_row_count", "get_upstream_tables",
                         "get_lineage_tree", "check_table_sources"}
    THEN {call.args[1]}
    ELSE IF call.op \in {"trace_column_lineage", "inspect_row"}
    THEN {call.args[1], call.args[2]}
    ELSE {}

\* C8: Rejection before the store is touched. A call of an operation that
\* takes a table, column or schema identifier, one of which fails validation,
\* ends with InvalidIdentifier, has read nothing from the store and has left
\* the cache as it was.
RejectedBeforeStore ==
    [][(/\ last.taken
        /\ ~last'.taken
        /\ \E name \in IdentifierArgs(last') : ~validate_identifier(name))
       => /\ last'.outcome = "InvalidIdentifier"
          /\ last'.reads = 0
          /\ cache' = cache]_vars

\* C9: get_lineage_tree(target, 0) returns the truncated leaf for every valid
\* target, whatever the store holds, and reads nothing from the store.
TruncatedAtDepthZero ==
    (/\ last.op = "get_lineage_tree"
     /\ last.args[2] = 0
     /\ validate_identifier(last.args[1]))
    => /\ last.outcome = "returned"
       /\ last.reads = 0
       /\ last.result = Truncated

\* Depth 0 was asked for a target that has upstream facts in the metadata, and
\* the truncated leaf came back.
TruncatedDespiteUpstream ==
    /\ last.op = "get_lineage_tree"
    /\ last.args[2] = 0
    /\ validate_identifier(last.args[1])
    /\ MetadataExists(store, TableLineageOf(lineageSchema))
    /\ SourcesOf(store, TableLineageOf(lineageSchema), last.args[1]) # <<>>
    /\ last.outcome = "returned"
    /\ last.result = Truncated

RECURSIVE TreeOf(_, _, _, _)
\* The tree the three rules give: truncated at depth 0, isSource without
\* upstream tables, and else each upstream table with its tree one less deep.
TreeOf(db, table, target_table, max_depth) ==
    IF max_depth <= 0 THEN Truncated
    ELSE IF get_upstream_tables(db, table, target_table, 0, 0).result = <<>> THEN IsSource
    ELSE [source \in {get_upstream_tables(db, table, target_table, 0, 0).result[i] :
                         i \in 1..Len(get_upstream_tables(db, table, target_table, 0, 0).result)}
             |-> TreeOf(db, table, source, max_depth - 1)]

\* C10: Lineage tree shape. For a valid target and max_depth >= 1, the store
\* answering every query, get_lineage_tree returns the isSource leaf when the
\* target has no upstream table, and else the mapping from each upstream table
\* to its tree at max_depth - 1.
LineageTreeShape ==
    (/\ last.op = "get_lineage_tree"
     /\ last.args[2] >= 1
     /\ last.fault = 0
     /\ validate_identifier(last.args[1]))
    => /\ last.outcome = "returned"
       /\ last.result = TreeOf(store, TableLineageOf(lineageSchema), last.args[1], last.args[2])

\* The tables the engine reads as upstream of target_table.
UpstreamOf(db, table, target_table) ==
    IF MetadataExists(db, table)
    THEN {SourcesOf(db, table, target_table)[i] :
             i \in 1..Len(SourcesOf(db, table, target_table))}
    ELSE {}

\* The tables the table-lineage facts name.
NamedTables(db, table) ==
    IF table \in DOMAIN db.tables
    THEN {db.tables[table].rows[i].target_table : i \in 1..Len(db.tables[table].rows)}
             \cup {db.tables[table].rows[i].source_table : i \in 1..Len(db.tables[table].rows)}
    ELSE {}

RECURSIVE Above(_, _, _, _)
\* The tables of S and those upstream of them, at most n facts away.
Above(db, table, S, n) ==
    IF n = 0 THEN S
    ELSE Above(db, table, S \cup UNION {UpstreamOf(db, table, s) : s \in S}, n - 1)

\* to is upstream of from, directly or indirectly.
IsUpstream(db, table, from, to) ==
    to \in Above(db, table, UpstreamOf(db, table, from), Cardinality(NamedTables(db, table)))

\* The paths of max_depth facts that start at target_table and stay on a cycle
\* through it: each table of the path is upstream of the one before, and
\* target_table is upstream of it.
CyclePaths(db, table, target_table, max_depth) ==
    {path \in [1..max_depth -> NamedTables(db, table)] :
        \A i \in 1..max_depth :
            /\ path[i] \in UpstreamOf(db, table, IF i = 1 THEN target_table ELSE path[i - 1])
            /\ IsUpstream(db, table, path[i], target_table)}

RECURSIVE LeafAt(_, _, _)
\* What stands in tree at the end of the path from its i-th table on.
LeafAt(tree, path, i) ==
    IF i > Len(path) THEN tree
    ELSE IF path[i] \in DOMAIN tree THEN LeafAt(tree[path[i]], path, i + 1)
    ELSE <<>>

\* C11: Cyclic lineage. For a valid target that is upstream of itself, the
\* store answering every query, get_lineage_tree(target, max_depth) returns,
\* and every branch of the tree that follows the cycle for max_depth facts
\* ends in the truncated leaf.
CyclicLineage ==
    (/\ last.op = "get_lineage_tree"
     /\ last.fault = 0
     /\ validate_identifier(last.args[1])
     /\ last.args[2] >= 1
     /\ IsUpstream(store, TableLineageOf(lineageSchema), last.args[1], last.args[1]))
    => /\ last.outcome = "returned"
       /\ \A path \in CyclePaths(store, TableLineageOf(lineageSchema), last.args[1], last.args[2]) :
              LeafAt(last.result, path, 1) = Truncated

\* The leaf {"_cycle": True} that is to stand for a table met again.
CycleLeaf == [leaf \in {"_cycle"} |-> TRUE]

RECURSIVE ShortCircuited(_, _)
\* Every table of tree that is in visited, or is met again further down its
\* own branch, carries the cycle leaf.
ShortCircuited(tree, visited) ==
    IF tree \in {Truncated, IsSource, CycleLeaf} THEN TRUE
    ELSE \A source \in DOMAIN tree :
             IF source \in visited THEN tree[source] = CycleLeaf
             ELSE ShortCircuited(tree[source], visited \cup {source})

\* C12: Cycle safety net. In the tree get_lineage_tree returns, a table that
\* is met again on the path being expanded, the target included, carries the
\* cycle leaf and is not expanded again.
CycleSafetyNet ==
    (last.op = "get_lineage_tree" /\ last.outcome = "returned")
        => ShortCircuited(last.result, {last.args[1]})

\* The source_table values of the facts of relation table whose target_table
\* is target_table; none when the relation is not in the store.
PersistedSources(db, table, target_table) ==
    IF table \in DOMAIN db.tables
    THEN {db.tables[table].rows[i].source_table :
             i \in {k \in 1..Len(db.tables[table].rows) :
                       db.tables[table].rows[k].target_table = target_table}}
    ELSE {}

\* C13: get_upstream_tables(target) returns, for a valid target and the store
\* answering every query, the distinct source_table values of the persisted
\* table-lineage facts of that target, each once; it returns the empty
\* result, and no error, when there is no such fact or no such relation.
UpstreamTables ==
    (/\ last.op = "get_upstream_tables"
     /\ last.fault = 0
     /\ validate_identifier(last.args[1]))
    => /\ last.outcome = "returned"
       /\ {last.result[i] : i \in 1..Len(last.result)}
              = PersistedSources(store, TableLineageOf(lineageSchema), last.args[1])
       /\ Len(last.result)
              = Cardinality(PersistedSources(store, TableLineageOf(lineageSchema), last.args[1]))

\* C19: Overridable metadata namespace. When the metadata was built under the
\* namespace the engine is configured with, whichever it is, and the store
\* answers every query, get_upstream_tables returns the persisted sources of
\* a valid target, and trace_column_lineage returns the report of the first
\* matching fact, or "no lineage found" when there is none: never "metadata
\* missing".
OverridableNamespace ==
    (/\ bres.how = "committed"
     /\ metaSchema = lineageSchema)
    => /\ (/\ last.op = "get_upstream_tables"
           /\ last.fault = 0
           /\ validate_identifier(last.args[1]))
          => /\ last.outcome = "returned"
             /\ {last.result[i] : i \in 1..Len(last.result)}
                    = PersistedSources(store, TableLineageOf(metaSchema), last.args[1])
       /\ (/\ last.op = "trace_column_lineage"
           /\ last.outcome = "returned"
           /\ last.result # QueryError)
          => /\ last.result # MetadataMissing(ColumnLineageOf(metaSchema))
             /\ last.result =
                    IF Matching(store, ColumnLineageOf(metaSchema),
                                last.args[1], last.args[2]) = <<>>
                    THEN LineageNotFound(last.args[1], last.args[2])
                    ELSE LineageReport[Matching(store, ColumnLineageOf(metaSchema),
                                                last.args[1], last.args[2])[1]]

\* The entry of check_table_sources for a source whose row count is count.
IsCounted(entry, count) ==
    /\ DOMAIN entry = {"row_count", "status"}
    /\ entry.row_count = count
    /\ (entry.status = "[!] EMPTY") <=> (count = 0)
    /\ (entry.status = "[OK]") <=> (count > 0)

\* The entry of check_table_sources for a source whose row count failed.
IsFailed(entry) ==
    /\ DOMAIN entry = {"error", "status"}
    /\ entry.status = "[X] ERROR"

\* C14: check_table_sources(target), where get_upstream_tables(target)
\* returns: with no upstream table the result is the "no upstream tables"
\* error object and nothing is raised; otherwise the result has one entry for
\* each upstream table and no other; the entry of a source whose name is not
\* an identifier or which the store cannot count is an error entry, the other
\* sources being checked all the same; the entry of a source that was counted
\* holds its count, with the status "empty" exactly when the count is 0 and
\* the healthy status exactly when it is greater than 0.
CheckedSources ==
    (/\ last.op = "check_table_sources"
     /\ get_upstream_tables(store, TableLineageOf(lineageSchema),
                            last.args[1], 0, last.fault).outcome = "returned")
    => \A upstream \in {get_upstream_tables(store, TableLineageOf(lineageSchema),
                                            last.args[1], 0, last.fault).result} :
          /\ last.outcome = "returned"
          /\ upstream = <<>> =>
                last.result = [error |-> "No upstream tables found for " \o last.args[1],
                               hint |-> "Check if lineage metadata exists"]
          /\ upstream # <<>> =>
                /\ DOMAIN last.result = {upstream[i] : i \in 1..Len(upstream)}
                /\ \A source \in DOMAIN last.result :
                      IF ~validate_identifier(source) \/ source \notin DOMAIN store.tables
                      THEN IsFailed(last.result[source])
                      ELSE \/ IsCounted(last.result[source], Len(store.tables[source].rows))
                           \/ last.fault # 0 /\ IsFailed(last.result[source])

\* A check has recorded the failure of one source and the count of another.
SourceFailedOthersChecked ==
    /\ last.op = "check_table_sources"
    /\ last.outcome = "returned"
    /\ \E failed, counted \in DOMAIN last.result :
          /\ failed \notin {"error", "hint"}
          /\ ~validate_identifier(failed) \/ failed \notin DOMAIN store.tables
          /\ last.result[failed].status = "[X] ERROR"
          /\ "row_count" \in DOMAIN last.result[counted]

\* C15: Store failures never crash a query. No call of trace_column_lineage,
\* get_upstream_tables, get_lineage_tree, check_table_sources or inspect_row
\* ends with the store's exception, whichever read of the call fails, the
\* read that looks for the metadata tables included.
StoreFailuresCaught ==
    last.op \in {"trace_column_lineage", "get_upstream_tables", "get_lineage_tree",
                 "check_table_sources", "inspect_row"}
    => last.outcome # "StoreError"

\* C16: Build-failed signal. A build pass that has opened its connection
\* and ends returns True or False to its caller: when BEGIN, a re-creation,
\* an INSERT, the COMMIT or the ROLLBACK fails, build() returns False and
\* raises nothing.
BuildFailedSignal ==
    [][(bpc # "idle" /\ bpc' = "idle")
       => /\ bres'.ret \in {"True", "False"}
          /\ bres'.how # "committed" => bres'.ret = "False"]_vars

\* What the lineage operation of the call last made returns from db when
\* its two reads succeed, and what it returns when its second read fails.
ReadOn(db) ==
    IF last.op = "get_upstream_tables"
    THEN {<<>>, get_upstream_tables(db, TableLineageOf(lineageSchema),
                                    last.args[1], 0, 0).result}
    ELSE {QueryError, trace_column_lineage(db, ColumnLineageOf(lineageSchema),
                                           last.args[1], last.args[2], 0).result}

\* C17: Rebuild isolation. A read of the fact tables made while a build pass
\* is in flight fails or returns what the fact tables held before the pass,
\* a read made at another time returns what the last committed pass left,
\* and no second build pass is in flight while one is.
RebuildIsolation ==
    [][/\ (/\ last.taken /\ ~last'.taken
           /\ last'.op \in {"get_upstream_tables", "trace_column_lineage"}
           /\ last'.outcome = "returned"
           /\ last'.reads = 2)
          => (last.result \in ReadOn(IF Writing THEN preStore ELSE store))'
       /\ ~(bpc' # "idle" /\ rival' # "idle")]_vars

\* What trace_column_lineage(key) can return from the database.
ReportsFor(key) ==
    {trace_column_lineage(store, ColumnLineageOf(lineageSchema),
                          key[1], key[2], failAt).result : failAt \in {0, 2}}

\* C18: Cache under concurrency. With threads that call trace_column_lineage
\* and clear_cache at the same time, the cache never holds more entries
\* than its capacity nor two entries of one key, every entry holds a report
\* of its own key, and the report a thread is handed is a report of the key
\* it called with.
CacheUnderConcurrency ==
    /\ Len(cache) <= MaxSize
    /\ \A i, j \in 1..Len(cache) : cache[i].key = cache[j].key => i = j
    /\ \A i \in 1..Len(cache) : cache[i].value \in ReportsFor(cache[i].key)
    /\ \A t \in Threads :
          (workers[t].pc = "returning" /\ workers[t].outcome = "returned")
          => workers[t].result \in ReportsFor(workers[t].key)

\* Two threads have missed at the same time with keys whose reports differ,
\* both have their reports, and the cache is full.
ConcurrentMisses ==
    /\ Len(cache) = MaxSize
    /\ \E t, u \in Threads :
          /\ workers[t].pc = "returning" /\ workers[u].pc = "returning"
          /\ ~workers[t].hit /\ ~workers[u].hit
          /\ workers[t].outcome = "returned" /\ workers[u].outcome = "returned"
          /\ workers[t].key # workers[u].key
          /\ ReportsFor(workers[t].key) \cap ReportsFor(workers[u].key) = {QueryError}

\* C20: Queries do not write. A call of an operation of the Query Engine,
\* returning or raising, leaves the database as it was, and the database
\* changes in no step but the COMMIT of a build pass.
QueriesDoNotWrite ==
    [][/\ (last.taken /\ ~last'.taken) => store' = store
       /\ store' # store => (bpc = "insert" /\ bres'.how = "committed")]_vars

\* An operation has read the fact tables that a build pass committed.
QueriedBuiltFacts ==
    /\ bres.how = "committed"
    /\ ~last.taken
    /\ last.op = "get_lineage_tree"
    /\ last.outcome = "returned"
    /\ last.reads > 2

\* The elements of a sequence.
Range(seq) == {seq[i] : i \in 1..Len(seq)}

ReferenceStatement ==
    "CREATE TABLE s.fact AS SELECT CASE WHEN salary > 100000 THEN 'HIGH' ELSE 'LOW' END AS risk_level FROM raw.job_history j JOIN raw.employees e ON j.emp_id = e.emp_id"

\* C21: Reference statement. The script that holds the reference statement
\* and nothing else yields two table-lineage facts, both of target s.fact,
\* one of source raw.job_history and one of source raw.employees, and one
\* column-lineage fact, of column risk_level with the marker COMPUTED and
\* the text from CASE to END as transformation.
ReferenceFacts ==
    (last.op = "parse_file" /\ last.args = <<ReferenceStatement>>)
    => /\ Len(last.result.table) = 2
       /\ \A fact \in Range(last.result.table) : fact.target_table = "s.fact"
       /\ {fact.source_table : fact \in Range(last.result.table)}
              = {"raw.job_history", "raw.employees"}
       /\ Len(last.result.column) = 1
       /\ last.result.column[1].target_table = "s.fact"
       /\ last.result.column[1].target_column = "risk_level"
       /\ last.result.column[1].source_column = "COMPUTED"
       /\ last.result.column[1].transformation_logic
              = "CASE WHEN salary > 100000 THEN 'HIGH' ELSE 'LOW' END"

\* The reference statement has been parsed, in a process that iterates its
\* sources last first.
ReferenceParsed ==
    /\ last.op = "parse_file"
    /\ last.args = <<ReferenceStatement>>
    /\ last.seed = 1
    /\ last.result.table[1].source_table = "raw.employees"

\* The facts of the script that holds one statement.
FactsOf(statement, seed) == parse_file[[name |-> "f.sql", content |-> statement], seed]

\* The statements with a table or view creation clause.
Creating == {statement \in Statements : CREATE_PATTERN[clean_sql[statement]] # ""}

\* The statements that hold no terminator.
Unbroken == {statement \in Statements : \A i \in 1..Len(statement) : CharAt(statement, i) # ";"}

\* The facts of the statements from the k-th on that have a creation clause,
\* in the order of the statements.
RECURSIVE CreatingFacts(_, _, _)
CreatingFacts(statements, k, seed) ==
    IF k > Len(statements) THEN NoFacts
    ELSE IF statements[k] \in Creating
    THEN LET first == FactsOf(statements[k], seed)
             rest == CreatingFacts(statements, k + 1, seed)
         IN  [table |-> first.table \o rest.table, column |-> first.column \o rest.column]
    ELSE CreatingFacts(statements, k + 1, seed)

\* C22: Silent skip. A statement without a creation clause yields no fact,
\* and the facts of a script are the facts of its statements that have a
\* creation clause, in the order of the statements.
SilentSkip ==
    /\ \A statement \in Unbroken \ Creating, seed \in 0..MaxSeed :
          FactsOf(statement, seed) = NoFacts
    /\ (last.op = "parse_file" /\ Range(last.args) \subseteq Unbroken)
       => last.result = CreatingFacts(last.args, 1, last.seed)

\* A script whose first statement creates nothing and whose second creates a
\* table has been parsed.
SkippedThenParsed ==
    /\ last.op = "parse_file"
    /\ Len(last.args) = 2
    /\ last.args[1] \in Unbroken \ Creating
    /\ last.args[2] \in Creating
    /\ last.result.table # <<>>

\* The FROM/JOIN references of a statement other than its target, letter
\* case ignored.
SourceNames(statement) ==
    {Lower[ref] : ref \in Range(SOURCE_PATTERN[clean_sql[statement], 1])}
        \ {Lower[CREATE_PATTERN[clean_sql[statement]]]}

\* C23: Case-insensitive source set. The table-lineage facts of a statement
\* are as many as its distinct source names, letter case ignored: no two of
\* them have sources that differ in letter case only.
CaseInsensitiveSources ==
    (/\ last.op = "parse_file"
     /\ Len(last.args) = 1
     /\ last.args[1] \in Creating \cap Unbroken)
    => /\ \A i, j \in 1..Len(last.result.table) :
             Lower[last.result.table[i].source_table]
                 = Lower[last.result.table[j].source_table] => i = j
       /\ Len(last.result.table) = Cardinality(SourceNames(last.args[1]))

\* C24: One fact per source name, never the target. The table-lineage
\* facts of a statement are one for each name it references after FROM or
\* JOIN, however often it references it, the target's own name in any
\* letter case left out; they all carry the same statement text.
OneFactPerSource ==
    (/\ last.op = "parse_file"
     /\ Len(last.args) = 1
     /\ last.args[1] \in Creating \cap Unbroken)
    => /\ \A i, j \in 1..Len(last.result.table) :
             last.result.table[i].source_table = last.result.table[j].source_table
             => i = j
       /\ {fact.source_table : fact \in Range(last.result.table)}
              = {ref \in Range(SOURCE_PATTERN[clean_sql[last.args[1]], 1]) :
                    Lower[ref] # Lower[CREATE_PATTERN[clean_sql[last.args[1]]]]}
       /\ \A fact, other \in Range(last.result.table) : fact.sql_text = other.sql_text
       /\ \A fact \in Range(last.result.table) :
             Lower[fact.source_table] # Lower[fact.target_table]

\* A statement that joins one table twice and names its own target in
\* another letter case has been parsed: it has one fact.
JoinedTwice ==
    /\ last.op = "parse_file"
    /\ last.args = <<"CREATE VIEW t AS SELECT 1 FROM r.a x JOIN r.a y JOIN T">>
    /\ Len(last.result.table) = 1
    /\ last.result.table[1].source_table = "r.a"

\* C25: Column fact uniqueness. The facts extracted from a script hold at
\* most one column-lineage fact for each pair of target table and target
\* column.
ColumnFactUniqueness ==
    last.op = "parse_file"
    => \A i, j \in 1..Len(last.result.column) :
          (/\ last.result.column[i].target_table = last.result.column[j].target_table
           /\ last.result.column[i].target_column = last.result.column[j].target_column)
          => i = j

\* The output column names of the conditional expressions of a statement.
ComputedColumns(statement) ==
    {Strip[match[2]] : match \in Range(CASE_PATTERN[clean_sql[statement], 1])}

\* C26: Computed wins over aggregated. Every output column of a conditional
\* expression of a statement has a COMPUTED fact, and no AGGREGATED fact of
\* the statement has the output column of one of its conditional
\* expressions, wherever the aggregate stands in the statement.
ComputedWins ==
    (/\ last.op = "parse_file"
     /\ Len(last.args) = 1
     /\ last.args[1] \in Creating \cap Unbroken)
    => /\ \A column \in ComputedColumns(last.args[1]) :
             \E fact \in Range(last.result.column) :
                 fact.target_column = column /\ fact.source_column = "COMPUTED"
       /\ \A fact \in Range(last.result.column) :
             fact.source_column = "AGGREGATED"
             => fact.target_column \notin ComputedColumns(last.args[1])

\* A statement whose aggregate comes before a conditional expression of the
\* same output column has been parsed: its one column fact is COMPUTED.
AggregateBeforeCase ==
    /\ last.op = "parse_file"
    /\ last.args = <<"CREATE TABLE t AS SELECT SUM(x) AS c, CASE WHEN a THEN 1 END AS c FROM r.a">>
    /\ Len(last.result.column) = 1
    /\ last.result.column[1].source_column = "COMPUTED"

\* The names a statement references after FROM or JOIN, as written, the
\* target's own name in any letter case left out.
SourcesAsWritten(statement) ==
    {ref \in Range(SOURCE_PATTERN[clean_sql[statement], 1]) :
        Lower[ref] # Lower[CREATE_PATTERN[clean_sql[statement]]]}

\* The texts that join the names of a set, each once, in some order.
JoinedNames(names) ==
    {Join[order, ", "] :
        order \in {o \in [1..Cardinality(names) -> names] :
                      \A i, j \in 1..Cardinality(names) : o[i] = o[j] => i = j}}

\* C27: Target without sources. A statement with a creation clause that
\* references no name but its target's yields no table-lineage fact, and
\* each of its column-lineage facts carries UNKNOWN as source list; the
\* column-lineage facts of a statement with sources carry the names of
\* exactly these sources, joined.
TargetWithoutSources ==
    (/\ last.op = "parse_file"
     /\ Len(last.args) = 1
     /\ last.args[1] \in Creating \cap Unbroken)
    => IF SourcesAsWritten(last.args[1]) = {}
       THEN /\ last.result.table = <<>>
            /\ \A fact \in Range(last.result.column) : fact.source_table = "UNKNOWN"
       ELSE \A fact \in Range(last.result.column) :
                fact.source_table \in JoinedNames(SourcesAsWritten(last.args[1]))

\* C27 as stated: moreover, a column-lineage fact carries UNKNOWN only if
\* the source set of its statement is empty.
UnknownOnlyWithoutSources ==
    /\ TargetWithoutSources
    /\ (/\ last.op = "parse_file"
        /\ Len(last.args) = 1
        /\ last.args[1] \in Creating \cap Unbroken)
       => \A fact \in Range(last.result.column) :
             fact.source_table = "UNKNOWN" => SourcesAsWritten(last.args[1]) = {}

\* A statement that reads from nothing but its own target has been parsed:
\* it has a column fact and no table fact.
OnlyItsTarget ==
    /\ last.op = "parse_file"
    /\ last.args = <<"CREATE TABLE t AS SELECT MAX(x) AS m FROM t">>
    /\ last.result.table = <<>>
    /\ Len(last.result.column) = 1
    /\ last.result.column[1].source_table = "UNKNOWN"

\* What parse_file returns for a script when its comments are deleted
\* first.
Uncommented(statements, seed) ==
    parse_file[[name |-> "f.sql", content |-> clean_sql[Join[statements, ";"]]], seed]

\* Facts without the statement texts of the table-lineage facts.
Edges(facts) ==
    [table |-> [i \in 1..Len(facts.table) |->
                   <<facts.table[i].target_table, facts.table[i].source_table>>],
     column |-> facts.column]

\* C28: Comments are removed before splitting. The facts extracted from a
\* script are the facts extracted from the script with its comments
\* deleted, so a terminator inside a comment ends no statement; a fragment
\* of white space only yields no fact.
CommentsRemovedFirst ==
    /\ \A seed \in 0..MaxSeed : FactsOf(" \n ", seed) = NoFacts
    /\ last.op = "parse_file"
       => Edges(last.result)
              = Edges(Uncommented(last.args, last.seed))

\* The components that are inside a with block of _connect(): a build pass
\* between its connect and its return, and a second pass that has begun.
\* Every operation of the Query Engine has returned or raised.
InsideWith == {owner \in Owners : \/ owner = "build" /\ bpc # "idle"
                                  \/ owner = "rival" /\ rival # "idle"}

\* C29: Store handles are scoped to a call. When an operation has returned
\* or raised (a normal return, a caught store error, a rejected identifier,
\* a build pass rolled back) no connection that it opened is open: the
\* open connections are those of the build passes in flight, one each.
ConnectionsScoped ==
    \A owner \in Owners : connections[owner] = IF owner \in InsideWith THEN 1 ELSE 0

\* A build pass was rolled back and returned False, and then inspect_row
\* caught the error of its query: neither has a connection open.
ClosedAfterFailures ==
    /\ bres.how = "rolledback"
    /\ bpc = "idle"
    /\ last.op = "inspect_row"
    /\ ~last.taken
    /\ last.reads = 1
    /\ last.result = [error |-> "StoreError"]
    /\ connections = NoConnections

\* The target and source names of the table-lineage facts that the last
\* parse extracted.
ExtractedNames ==
    {built.facts.table[i].target_table : i \in 1..Len(built.facts.table)}
        \cup {built.facts.table[i].source_table : i \in 1..Len(built.facts.table)}

\* C30: Extractor output is accepted at the query boundary. Every target and
\* source name of an extracted table-lineage fact passes validate_identifier,
\* and get_lineage_tree on a valid target never ends with the identifier
\* error, whatever upstream names it reads from the built facts.
ExtractorOutputAccepted ==
    (last.op = "get_lineage_tree" /\ validate_identifier(last.args[1]))
    => /\ \A name \in ExtractedNames : validate_identifier(name)
       /\ last.outcome # "InvalidIdentifier"

====
